---- MODULE Spec2Model ----
(***************************************************************************)
(* A model of the FSD document-assembly pipeline of backend/main.py and     *)
(* backend/md_to_docs_converter.py: the remote extraction battery           *)
(* (LLMClient, IntelligentFSDMapper), the merge of the nine task results    *)
(* into the FSD Document, the output stage (EnhancedOutputGenerator,        *)
(* TitlePageGenerator) and the batch loop                                   *)
(* (EnhancedIntelligentFSDGenerator.process_multiple_files).                *)
(***************************************************************************)
EXTENDS Integers, Sequences, FiniteSets, TLC

VARIABLES
    html_files,      \* process_multiple_files: the input list
    idx,             \* process_multiple_files: index of the file being processed
    pc,              \* position of the single control flow
    fsd_document,    \* IntelligentFSDMapper.fsd_document (one object per mapper)
    results,         \* _analyze_with_fixed_comprehensive_llm: results dict
    task_no,         \* index into analysis_tasks of the next task
    in_flight,       \* remote calls issued and not yet answered
    call_log,        \* remote calls issued for the current file, in order
    response,        \* the service's answer to the last call (None before it)
    failed_calls,    \* tasks of the current file whose remote call failed
    session,         \* LLMClient.session: "none", "open" or "closed"
    opens,           \* number of sessions opened for the current file
    closes,          \* number of sessions closed for the current file
    pending_error,   \* the exception propagating out of process_file ("" if none)
    merges,          \* number of runs of _map_fixed_results_to_fsd on fsd_document
    merge_raised,    \* whether the last run of _map_fixed_results_to_fsd raised
    served,          \* the JSON document the service sent for each answered task
    template_exists, \* os.path.exists(template_path), as observed for the current file
    dir_template,    \* whether _find_template_file finds a template
    written,         \* artifacts written for the current file
    output_files,    \* process_file: the output_files mapping (its keys)
    word_result,     \* what generate_with_proper_tables returned ("none" before)
    raised_at,       \* the step of process_file that raised ("" if none)
    batch_results,   \* process_multiple_files: results dict, path -> outcome
    attempts,        \* the outcome of each attempt of the batch, in order
    successful,      \* process_multiple_files: successful
    failed,          \* process_multiple_files: failed
    summary,         \* the value process_multiple_files returned (None before)
    fail_budget,     \* remote-call failures the environment may still inject
    bad_budget,      \* non-mapping answers the environment may still inject
    markdown,        \* _generate_markdown: the text returned (tokens), or its outcome
    parser,          \* MarkdownParser.parse: its lines, position in them and locals
    parsed_data,     \* MarkdownParser.parse: the parsed_data it returned
    excel,           \* the reference table file the lookups read
    improve,         \* what the polishing call of _improve_text does
    docx,            \* the python-docx Document being filled: its body elements
    title_info,      \* generate_with_proper_tables: the title_info argument
    fault,           \* where python-docx raises during this run ("none": nowhere)
    steps,           \* generate_with_proper_tables: the steps run so far
    template,        \* the template file at template_path: its body elements
    saved_doc,       \* the document the last doc.save wrote (<<>> before)
    run,             \* the number of the current run of the Word filler
    toc,             \* _extract_table_of_contents: its lines, locals and toc_items
    processing_jobs, \* the job registry of the service: job id -> ProcessingStatus
    tasks,           \* the background tasks of the service: job id -> position and locals
    output_dir       \* output_generator.output_dir of the shared generator

vars == <<html_files, idx, pc, fsd_document, results, task_no, in_flight, call_log,
          response, failed_calls, session, opens, closes, pending_error, merges,
          merge_raised, served, template_exists, dir_template,
          written, output_files, word_result, raised_at, batch_results, attempts,
          successful, failed, summary, fail_budget, bad_budget,
          markdown, parser, parsed_data, excel, improve,
          docx, title_info, fault, steps, template, saved_doc, run,
          toc, processing_jobs, tasks, output_dir>>

\* The variables of the Word filler (md_to_docs_converter.py).
word_vars == <<docx, title_info, fault, steps, template, saved_doc, run>>

\* The variables of the table of contents and of the service (main.py, the
\* FastAPI part).
service_vars == <<toc, processing_jobs, tasks, output_dir>>

\* The variables of the document stages (rendering, parsing), which the
\* pipeline actions leave alone.
doc_vars == <<markdown, parser, parsed_data, excel, improve, word_vars, service_vars>>

(***************************************************************************)
(* JSON values, as json.loads returns them, tagged by their Python type.    *)
(***************************************************************************)
JNull == [t |-> "null"]
JStr(s) == [t |-> "str", s |-> s]
JNum(n) == [t |-> "num", n |-> n]
JBool(b) == [t |-> "bool", b |-> b]
JList(xs) == [t |-> "list", xs |-> xs]
JMap(m) == [t |-> "map", m |-> m]
EmptyMap == JMap(<<>>)
EmptyList == JList(<<>>)

\* Python truthiness (`if value:`).
Truthy(v) ==
    CASE v.t = "null" -> FALSE
      [] v.t = "str" -> v.s # ""
      [] v.t = "num" -> v.n # 0
      [] v.t = "bool" -> v.b
      [] v.t = "list" -> v.xs # <<>>
      [] v.t = "map" -> DOMAIN v.m # {}

\* dict.get(key, default); the caller has established that v is a mapping.
Get(v, key, default) == IF key \in DOMAIN v.m THEN v.m[key] ELSE default

\* Whether `value.get(...)` raises AttributeError: value is not a dict.
HasNoGet(v) == v.t # "map"

\* An f-string of a value; strings and numbers are the values formatted here.
PyFormat(v) ==
    CASE v.t = "str" -> v.s
      [] v.t = "num" -> ToString(v.n)
      [] v.t = "null" -> "None"

(***************************************************************************)
(* FSD data structures.                                                      *)
(***************************************************************************)
FieldProcessingType == {"DIRECT", "LOOKUP", "CALCULATION", "CONSTANT", "AGGREGATION"}

EnumMember(name) == [t |-> "enum", value |-> name]

ProjectName == "SSoT"

\* FSDDocument(): every field at its dataclass default.
FSDDocument ==
    [ project_name |-> JStr(""),
      document_location |-> JStr(""),
      related_documents |-> <<>>,
      reviewers |-> <<>>,
      version_history |-> <<>>,
      user_requirements |-> JStr(""),
      assumptions |-> EmptyList,
      program_name |-> JStr(""),
      transaction_code |-> JStr(""),
      menu_path |-> JStr(""),
      report_description |-> JStr(""),
      desain_report_description |-> JStr(""),
      selection_parameters |-> <<>>,
      field_mappings |-> <<>>,
      validation_rules |-> <<>>,
      valid_dataset_rules |-> <<>>,
      country_info |-> <<>>,
      currency_t500c |-> <<>>,
      currency_t001 |-> <<>>,
      authorization_objects |-> <<>>,
      user_roles |-> <<>>,
      constraints |-> <<>>,
      dependencies |-> <<>>,
      error_scenarios |-> <<>>,
      test_scenarios |-> <<>>,
      design_changes |-> <<>> ]

\* IntelligentFSDMapper.__init__: a fresh document carrying the project name.
MapperInit == [FSDDocument EXCEPT !.project_name = JStr(ProjectName)]

SelectionParameter(e) ==
    [ name |-> Get(e, "name", JStr("")),
      type |-> Get(e, "type", JStr("")),
      description |-> Get(e, "description", JStr("")),
      is_mandatory |-> Get(e, "is_mandatory", JBool(FALSE)),
      is_select_option |-> Get(e, "is_select_option", JBool(FALSE)),
      has_no_intervals |-> Get(e, "has_no_intervals", JBool(FALSE)),
      default_value |-> Get(e, "default_value", JStr("")) ]

\* FieldProcessingType(value) raises ValueError unless value is a member's value.
IsProcessingType(v) == v.t = "str" /\ v.s \in FieldProcessingType

\* try: FieldProcessingType(...) except ValueError: FieldProcessingType.DIRECT
CoerceProcessingType(v) ==
    IF IsProcessingType(v) THEN EnumMember(v.s) ELSE EnumMember("DIRECT")

FieldMapping(e) ==
    [ display_name |-> Get(e, "display_name", JStr("")),
      technical_field |-> Get(e, "technical_field", JStr("")),
      source_table |-> Get(e, "source_table", JStr("")),
      processing_logic |-> Get(e, "processing_logic", JStr("")),
      processing_type |-> CoerceProcessingType(Get(e, "processing_type", JStr("DIRECT"))),
      join_condition |-> Get(e, "join_condition", JStr("")),
      where_condition |-> Get(e, "where_condition", JStr("")) ]

DataConditionRow(e) ==
    [ data |-> Get(e, "data", JStr("")), condition |-> Get(e, "condition", JStr("")) ]

ErrorScenario(e) ==
    [ error_description |-> Get(e, "error_description", JStr("")),
      resolution |-> Get(e, "resolution", JStr("")),
      error_code |-> Get(e, "error_code", JStr("")),
      severity |-> Get(e, "severity", JStr("ERROR")) ]

TestScenario(e) ==
    [ condition |-> Get(e, "condition", JStr("")),
      expected_result |-> Get(e, "expected_result", JStr("")),
      test_data |-> Get(e, "test_data", JStr("")),
      priority |-> Get(e, "priority", JStr("HIGH")) ]

(***************************************************************************)
(* _map_fixed_results_to_fsd.  A run of the merge either completes or       *)
(* raises part-way; what it wrote before raising stays in the document.     *)
(***************************************************************************)
Done(doc) == [doc |-> doc, raised |-> FALSE]
Raised(doc) == [doc |-> doc, raised |-> TRUE]

\* results.get(task, {})
ResultOf(res, task) == IF task \in DOMAIN res THEN res[task] ELSE EmptyMap

IsMapping(e) == e.t = "map"

\* ' & '.join(target_fields) raises TypeError unless it iterates over strings.
JoinRaises(tf) ==
    \/ tf.t \in {"null", "num", "bool"}
    \/ tf.t = "list" /\ \E i \in 1..Len(tf.xs) : tf.xs[i].t # "str"

RECURSIVE JoinAmp(_)
JoinAmp(xs) ==
    IF xs = <<>> THEN ""
    ELSE IF Len(xs) = 1 THEN xs[1].s
    ELSE xs[1].s \o " & " \o JoinAmp(Tail(xs))

JoinFields(tf) ==
    CASE tf.t = "list" -> JStr(JoinAmp(tf.xs))
      [] tf.t \in {"str", "map"} /\ ~Truthy(tf) -> JStr("")

LookupRowOk(e, dflt) == IsMapping(e) /\ ~JoinRaises(Get(e, "target_fields", JList(<<JStr(dflt)>>)))

LookupRow(e, dflt) ==
    [ data |-> JoinFields(Get(e, "target_fields", JList(<<JStr(dflt)>>))),
      condition |-> Get(e, "condition", JStr("")) ]

\* Whether building a record of class cls from element e raises, and the record.
RecordOk(cls, dflt, e) ==
    IF cls = "LookupRow" THEN LookupRowOk(e, dflt) ELSE IsMapping(e)

RecordOf(cls, dflt, e) ==
    CASE cls = "SelectionParameter" -> SelectionParameter(e)
      [] cls = "FieldMapping" -> FieldMapping(e)
      [] cls = "DataConditionRow" -> DataConditionRow(e)
      [] cls = "ErrorScenario" -> ErrorScenario(e)
      [] cls = "TestScenario" -> TestScenario(e)
      [] cls = "LookupRow" -> LookupRow(e, dflt)

\* The longest prefix of xs whose elements all convert without raising.
GoodPrefixLen(xs, cls, dflt) ==
    CHOOSE k \in 0..Len(xs) :
        /\ \A i \in 1..k : RecordOk(cls, dflt, xs[i])
        /\ k = Len(xs) \/ ~RecordOk(cls, dflt, xs[k + 1])

\* `for e in v: lst.append(Conv(e))`: v not iterable raises TypeError before the
\* first element; an element that does not convert raises after its predecessors
\* were appended.  A string or a mapping iterates over strings, none of which
\* converts.
AppendEach(lst, v, cls, dflt) ==
    CASE v.t \in {"null", "num", "bool"} -> [list |-> lst, raised |-> TRUE]
      [] v.t = "list" ->
            LET n == GoodPrefixLen(v.xs, cls, dflt)
            IN  [list |-> lst \o [i \in 1..n |-> RecordOf(cls, dflt, v.xs[i])],
                 raised |-> n < Len(v.xs)]
      [] v.t \in {"str", "map"} -> [list |-> lst, raised |-> Truthy(v)]

\* lst.extend(v)
Extend(lst, v) ==
    CASE v.t \in {"null", "num", "bool"} -> [list |-> lst, raised |-> TRUE]
      [] v.t = "list" -> [list |-> lst \o v.xs, raised |-> FALSE]
      [] v.t \in {"str", "map"} /\ ~Truthy(v) -> [list |-> lst, raised |-> FALSE]

\* Lines 1630-1660.
MapBasicInfo(doc, res) ==
    LET basic_info == ResultOf(res, "basic_info")
        ricefw_id == Get(basic_info, "ricefw_id", JStr(""))
        created_date == Get(basic_info, "created_date", JStr(""))
        created_by == Get(basic_info, "created_by", JStr(""))
        functional_contact == Get(basic_info, "functional_contact", JStr(""))
    IN  IF ~Truthy(basic_info) THEN Done(doc)
        ELSE IF HasNoGet(basic_info) THEN Raised(doc)
        ELSE Done(
            [doc EXCEPT
              !.program_name = Get(basic_info, "program_name", JStr("")),
              !.report_description = Get(basic_info, "report_description", JStr("")),
              !.desain_report_description = Get(basic_info, "desain_report_description", JStr("")),
              !.user_requirements = Get(basic_info, "user_requirements", JStr("")),
              !.assumptions = Get(basic_info, "assumptions", EmptyList),
              !.transaction_code = Get(basic_info, "transaction_code", JStr("")),
              !.menu_path = Get(basic_info, "menu_path", JStr("N/A")),
              !.related_documents =
                  IF Truthy(ricefw_id)
                  THEN Append(@, JStr("RICEFW ID: " \o PyFormat(ricefw_id)))
                  ELSE @,
              !.version_history =
                  IF Truthy(created_date) /\ Truthy(created_by)
                  THEN Append(@, [version |-> JStr("0.01"), change |-> JStr("Initial draft"),
                                  author |-> created_by, date |-> created_date])
                  ELSE @,
              !.reviewers =
                  IF Truthy(functional_contact)
                  THEN Append(@, [role |-> JStr("Functional Lead"), name |-> functional_contact])
                  ELSE @ ])

\* One `if result: for e in result.get(key, []): doc.<field>.append(Conv(e))` block.
MapRecordList(doc, result, key, fld, cls) ==
    IF ~Truthy(result) THEN Done(doc)
    ELSE IF HasNoGet(result) THEN Raised(doc)
    ELSE LET r == AppendEach(doc[fld], Get(result, key, EmptyList), cls, "")
         IN  [doc |-> [doc EXCEPT ![fld] = r.list], raised |-> r.raised]

\* Lines 1663-1674.
MapSelectionScreen(doc, res) ==
    MapRecordList(doc, ResultOf(res, "selection_screen"), "selection_parameters",
                  "selection_parameters", "SelectionParameter")

\* Lines 1677-1693.
MapFieldMappings(doc, res) ==
    MapRecordList(doc, ResultOf(res, "complete_field_mappings"), "field_mappings",
                  "field_mappings", "FieldMapping")

\* Lines 1696-1702.
MapValidDatasets(doc, res) ==
    MapRecordList(doc, ResultOf(res, "complete_valid_datasets"), "valid_dataset_rules",
                  "valid_dataset_rules", "DataConditionRow")

\* The lookup loops of lines 1708-1742: result key, document field, default
\* target field.
LookupLoops ==
    << <<"company_code_lookup", "country_info", "BUTXT">>,
       <<"business_area_lookup", "currency_t500c", "GTEXT">>,
       <<"wage_type_lookup", "currency_t001", "LGTXT">>,
       <<"payroll_reason_lookup", "currency_t001", "OCRTX">> >>

\* One lookup loop.
MapLookup(doc, lookup_forms, key, fld, dflt) ==
    LET r == AppendEach(doc[fld], Get(lookup_forms, key, EmptyList), "LookupRow", dflt)
    IN  [doc |-> [doc EXCEPT ![fld] = r.list], raised |-> r.raised]

\* The loops from the k-th on; a loop runs only if no earlier one raised.
RECURSIVE MapLookupsFrom(_, _, _)
MapLookupsFrom(m, k, lookup_forms) ==
    IF k > Len(LookupLoops) \/ m.raised THEN m
    ELSE MapLookupsFrom(
            MapLookup(m.doc, lookup_forms, LookupLoops[k][1], LookupLoops[k][2], LookupLoops[k][3]),
            k + 1, lookup_forms)

\* Lines 1705-1742.
MapLookupForms(doc, res) ==
    LET lookup_forms == ResultOf(res, "complete_lookup_forms")
    IN  IF ~Truthy(lookup_forms) THEN Done(doc)
        ELSE IF HasNoGet(lookup_forms) THEN Raised(doc)
        ELSE MapLookupsFrom(Done(doc), 1, lookup_forms)

\* Lines 1745-1753.
MapErrorHandling(doc, res) ==
    MapRecordList(doc, ResultOf(res, "error_handling"), "error_scenarios",
                  "error_scenarios", "ErrorScenario")

\* Lines 1755-1763.
MapTestScenarios(doc, res) ==
    MapRecordList(doc, ResultOf(res, "test_scenarios"), "test_scenarios",
                  "test_scenarios", "TestScenario")

\* One `doc.<field>.extend(result.get(key, []))`.
MapExtend(m, result, key, fld) ==
    IF m.raised THEN m
    ELSE LET r == Extend(m.doc[fld], Get(result, key, EmptyList))
         IN  [doc |-> [m.doc EXCEPT ![fld] = r.list], raised |-> r.raised]

\* Lines 1765-1767.
MapValidationRules(doc, res) ==
    LET validation_rules == ResultOf(res, "validation_rules")
    IN  IF ~Truthy(validation_rules) THEN Done(doc)
        ELSE IF HasNoGet(validation_rules) THEN Raised(doc)
        ELSE MapExtend(Done(doc), validation_rules, "validation_rules", "validation_rules")

\* A faulty variant of the authorization block: the user roles are added to
\* the validation rules.
MapAuthorizationIntoRules(doc, res) ==
    LET authorization == ResultOf(res, "authorization")
    IN  IF ~Truthy(authorization) THEN Done(doc)
        ELSE IF HasNoGet(authorization) THEN Raised(doc)
        ELSE MapExtend(
               MapExtend(Done(doc), authorization, "authorization_objects", "authorization_objects"),
               authorization, "user_roles", "validation_rules")

\* Lines 1769-1772.
MapAuthorization(doc, res) ==
    LET authorization == ResultOf(res, "authorization")
    IN  IF ~Truthy(authorization) THEN Done(doc)
        ELSE IF HasNoGet(authorization) THEN Raised(doc)
        ELSE MapExtend(
               MapExtend(Done(doc), authorization, "authorization_objects", "authorization_objects"),
               authorization, "user_roles", "user_roles")

\* The block of the merge that handles one task's result.
MapBlock(task, doc, res) ==
    CASE task = "basic_info" -> MapBasicInfo(doc, res)
      [] task = "selection_screen" -> MapSelectionScreen(doc, res)
      [] task = "complete_field_mappings" -> MapFieldMappings(doc, res)
      [] task = "complete_valid_datasets" -> MapValidDatasets(doc, res)
      [] task = "complete_lookup_forms" -> MapLookupForms(doc, res)
      [] task = "error_handling" -> MapErrorHandling(doc, res)
      [] task = "test_scenarios" -> MapTestScenarios(doc, res)
      [] task = "validation_rules" -> MapValidationRules(doc, res)
      [] task = "authorization" -> MapAuthorization(doc, res)

\* The tasks in the order the function body handles their results.
MergeOrder ==
    << "basic_info", "selection_screen", "complete_field_mappings",
       "complete_valid_datasets", "complete_lookup_forms", "error_handling",
       "test_scenarios", "validation_rules", "authorization" >>

\* The blocks from the k-th on; a block runs only if no earlier one raised.
RECURSIVE MergeFrom(_, _, _)
MergeFrom(m, k, res) ==
    IF k > Len(MergeOrder) \/ m.raised THEN m
    ELSE MergeFrom(MapBlock(MergeOrder[k], m.doc, res), k + 1, res)

\* _map_fixed_results_to_fsd(results) on the mapper's document.
MapFixedResultsToFsd(doc, res) == MergeFrom(Done(doc), 1, res)

\* dataclass_to_dict(fsd_document): an Enum becomes its value, the rest is kept.
DumpFieldMapping(fm) ==
    [fm EXCEPT !.processing_type =
        IF @.t = "enum" THEN JStr(@.value) ELSE @]

DataclassToDict(doc) ==
    [doc EXCEPT !.field_mappings = [i \in 1..Len(@) |-> DumpFieldMapping(@[i])]]

(***************************************************************************)
(* The extraction battery and the input files.                               *)
(***************************************************************************)
\* A faulty variant of the battery: the first two tasks change places.
AnalysisTasksSwapped ==
    << "selection_screen", "basic_info", "complete_field_mappings",
       "complete_valid_datasets", "complete_lookup_forms", "error_handling",
       "test_scenarios", "validation_rules", "authorization" >>

\* analysis_tasks, in the order of the list literal.
AnalysisTasks ==
    << "basic_info", "selection_screen", "complete_field_mappings",
       "complete_valid_datasets", "complete_lookup_forms", "error_handling",
       "test_scenarios", "validation_rules", "authorization" >>

NumTasks == Len(AnalysisTasks)

TaskSet == {AnalysisTasks[i] : i \in 1..NumTasks}

\* Input paths: two listings that exist and one path that does not.
Files == {"up/a.html", "up/b.html", "up/missing.html"}

\* A faulty variant of the existence check: every path passes.
FileExistsUnchecked(f) == TRUE

\* os.path.exists(html_file_path)
FileExists(f) == f # "up/missing.html"

\* os.path.basename(path)
Basename(f) ==
    CASE f = "up/a.html" -> "a.html"
      [] f = "up/b.html" -> "b.html"
      [] f = "up/missing.html" -> "missing.html"

\* What distinguishes the facts extracted from one listing from another's.
Tag(f) == IF f = "up/a.html" THEN "A" ELSE "B"

(***************************************************************************)
(* JSON documents the text-generation service may answer with.  A document  *)
(* follows the schema its prompt asks for; the values are per listing.      *)
(***************************************************************************)
Absent == [t |-> "absent"]

\* A mapping built from key/value pairs, leaving out the keys whose value is Absent.
MapOf(pairs) ==
    JMap([k \in {q[1] : q \in {r \in pairs : r[2] # Absent}} |->
            (CHOOSE q \in pairs : q[1] = k)[2]])

BasicInfoDoc(f, assumptions) ==
    MapOf({ <<"program_name", JStr("ZHR_" \o Tag(f))>>,
            <<"report_description", JStr("Report " \o Tag(f))>>,
            <<"user_requirements", JStr("Requirement " \o Tag(f))>>,
            <<"assumptions", assumptions>>,
            <<"transaction_code", JStr("ZT" \o Tag(f))>>,
            <<"ricefw_id", JStr("RHR00" \o Tag(f))>>,
            <<"created_date", JStr("2024-01-01")>>,
            <<"created_by", JStr("dev" \o Tag(f))>>,
            <<"functional_contact", JStr("lead" \o Tag(f))>> })

SelectionParameterDoc(f) ==
    MapOf({ <<"name", JStr("P_BUKRS_" \o Tag(f))>>, <<"type", JStr("BUKRS")>>,
            <<"description", JStr("Company Code")>>, <<"is_mandatory", JBool(TRUE)>>,
            <<"is_select_option", JBool(FALSE)>>, <<"has_no_intervals", JBool(FALSE)>> })

FieldMappingDoc(f, processing_type) ==
    MapOf({ <<"display_name", JStr("Name " \o Tag(f))>>, <<"technical_field", JStr("ENAME")>>,
            <<"source_table", JStr("PA0001")>>, <<"processing_logic", JStr("read")>>,
            <<"processing_type", processing_type>> })

DatasetRuleDoc(f) ==
    MapOf({ <<"data", JStr("P0001_" \o Tag(f))>>, <<"condition", JStr("valid in period")>> })

LookupRuleDoc(f, target_fields) ==
    MapOf({ <<"condition", JStr("lookup " \o Tag(f))>>, <<"target_fields", target_fields>> })

ErrorScenarioDoc(f) ==
    MapOf({ <<"error_description", JStr("no data " \o Tag(f))>>, <<"resolution", JStr("check input")>> })

TestScenarioDoc(f) ==
    MapOf({ <<"condition", JStr("run " \o Tag(f))>>, <<"expected_result", JStr("list shown")>> })

\* The record-list key (or keys) of each task's schema.
ListKeys(task) ==
    CASE task = "basic_info" -> {"assumptions"}
      [] task = "selection_screen" -> {"selection_parameters"}
      [] task = "complete_field_mappings" -> {"field_mappings"}
      [] task = "complete_valid_datasets" -> {"valid_dataset_rules"}
      [] task = "complete_lookup_forms" ->
            {"company_code_lookup", "business_area_lookup", "wage_type_lookup",
             "payroll_reason_lookup"}
      [] task = "error_handling" -> {"error_scenarios"}
      [] task = "test_scenarios" -> {"test_scenarios"}
      [] task = "validation_rules" -> {"validation_rules"}
      [] task = "authorization" -> {"authorization_objects", "user_roles"}

\* The first record-list key of a task's schema.
ListKey(task) ==
    CASE task = "complete_lookup_forms" -> "company_code_lookup"
      [] task = "authorization" -> "authorization_objects"
      [] OTHER -> CHOOSE k \in ListKeys(task) : TRUE

\* The well-formed elements of a task's record list for listing f.
ListElems(task, f, processing_type) ==
    CASE task = "basic_info" -> <<JStr("Assume " \o Tag(f))>>
      [] task = "selection_screen" -> <<SelectionParameterDoc(f)>>
      [] task = "complete_field_mappings" -> <<FieldMappingDoc(f, processing_type)>>
      [] task = "complete_valid_datasets" -> <<DatasetRuleDoc(f)>>
      [] task = "complete_lookup_forms" ->
            <<LookupRuleDoc(f, JList(<<JStr("BUTXT"), JStr("ORT01")>>))>>
      [] task = "error_handling" -> <<ErrorScenarioDoc(f)>>
      [] task = "test_scenarios" -> <<TestScenarioDoc(f)>>
      [] task = "validation_rules" -> <<JStr("rule " \o Tag(f))>>
      [] task = "authorization" -> <<JStr("P_ORGIN")>>

\* The answer to a task's prompt with `list` under the task's first list key.
TaskDoc(task, f, list) ==
    CASE task = "basic_info" -> BasicInfoDoc(f, list)
      [] task = "complete_lookup_forms" ->
            MapOf({ <<"company_code_lookup", list>>,
                    <<"wage_type_lookup", JList(<<LookupRuleDoc(f, Absent)>>)>>,
                    <<"payroll_reason_lookup", JList(<<LookupRuleDoc(f, JList(<<JStr("OCRTX")>>))>>)>> })
      [] task = "authorization" ->
            MapOf({ <<"authorization_objects", list>>, <<"user_roles", JList(<<JStr("HR")>>)>> })
      [] OTHER -> MapOf({ <<ListKey(task), list>> })

\* A well-formed answer.
GoodDoc(task, f, processing_type) == TaskDoc(task, f, JList(ListElems(task, f, processing_type)))

\* Answers that are not what the schema asks for.
NullListDoc(task, f) == TaskDoc(task, f, JNull)
BadElemDoc(task, f) ==
    TaskDoc(task, f, JList(ListElems(task, f, JStr("LOOKUP")) \o <<JNum(1)>>))
NonMappings == {JList(<<JNum(1)>>), JStr("oops"), JNum(7), JNull}

\* processing_type values an answer may carry (Absent: the key is missing).
ProcessingTypeInputs == {JStr("LOOKUP"), JStr("BOGUS"), JNull, Absent}

\* The JSON texts of the documents above, and two texts of bare values.
Variants(task) ==
    (IF task = "complete_field_mappings" THEN {"LOOKUP", "BOGUS", "null", "absent"} ELSE {"good"})
    \cup {"nulllist", "badelem"}

VariantDoc(task, f, variant) ==
    CASE variant = "nulllist" -> NullListDoc(task, f)
      [] variant = "badelem" -> BadElemDoc(task, f)
      [] variant = "null" -> GoodDoc(task, f, JNull)
      [] variant = "absent" -> GoodDoc(task, f, Absent)
      [] OTHER -> GoodDoc(task, f, JStr(variant))

TextOf(task, f, variant) == "<" \o task \o ":" \o Tag(f) \o ":" \o variant \o ">"

JsonTable ==
    { <<"{}", EmptyMap>>, <<"[1]", JList(<<JNum(1)>>)>>, <<"\"oops\"", JStr("oops")>>,
      <<"7", JNum(7)>>, <<"null", JNull>> }
    \cup UNION { { <<TextOf(task, f, v), VariantDoc(task, f, v)>> : v \in Variants(task) } :
                 task \in TaskSet, f \in {"up/a.html", "up/b.html"} }

\* json.loads(text) and whether it raises JSONDecodeError.
JsonDecodes(text) == \E p \in JsonTable : p[1] = text
JsonLoads(text) == (CHOOSE p \in JsonTable : p[1] = text)[2]
\* The text the service writes for a document.
JsonDumps(v) == (CHOOSE p \in JsonTable : p[2] = v)[1]

(***************************************************************************)
(* LLMClient.                                                                *)
(***************************************************************************)
NoResponse == [kind |-> "none", status |-> 0, body |-> JNull]
\* session.post raises (timeout, connection error).
TransportError == [kind |-> "exception", status |-> 0, body |-> JNull]
Http(status, body) == [kind |-> "http", status |-> status, body |-> body]
\* A body response.json() cannot decode.
InvalidBody == [t |-> "invalid"]

\* The generateContent envelope around an answer text.
Envelope(text) ==
    JMap([candidates |->
        JList(<<JMap([content |-> JMap([parts |-> JList(<<JMap([text |-> JStr(text)])>>)])])>>)])

HttpOk == 200

\* _call_api raises unless the status is 200 and the body is JSON.
CallApiRaises(r) == r.kind # "http" \/ r.status # HttpOk \/ r.body = InvalidBody

Returns(v) == [raised |-> FALSE, value |-> v]
Raises == [raised |-> TRUE, value |-> JNull]

\* `container[0]` followed by `.get`: what it yields, "KeyError" (caught by
\* _parse_response) or "raise" (any other exception).
First(container) ==
    CASE container.t = "map" -> "KeyError"
      [] container.t = "list" /\ container.xs # <<>> /\ container.xs[1].t = "map" -> "ok"
      [] OTHER -> "raise"

\* _parse_response(response): the value returned, or an exception other than
\* JSONDecodeError and KeyError leaving it.
ParseResponse(body) ==
    IF HasNoGet(body) THEN Raises
    ELSE LET candidates == Get(body, "candidates", JList(<<EmptyMap>>))
         IN  IF First(candidates) = "KeyError" THEN Returns(EmptyMap)
             ELSE IF First(candidates) = "raise" THEN Raises
             ELSE LET content == Get(candidates.xs[1], "content", EmptyMap)
                  IN  IF HasNoGet(content) THEN Raises
                      ELSE LET parts == Get(content, "parts", JList(<<EmptyMap>>))
                           IN  IF First(parts) = "KeyError" THEN Returns(EmptyMap)
                               ELSE IF First(parts) = "raise" THEN Raises
                               ELSE LET text == Get(parts.xs[1], "text", JStr("{}"))
                                    IN  IF text.t # "str" THEN Raises
                                        ELSE IF JsonDecodes(text.s) THEN Returns(JsonLoads(text.s))
                                        ELSE Returns(EmptyMap)

\* A faulty variant of analyze: a failed call yields None instead of {}.
AnalyzeNoneOnFailure(r) ==
    IF CallApiRaises(r) THEN JNull
    ELSE IF ParseResponse(r.body).raised THEN JNull
    ELSE ParseResponse(r.body).value

\* LLMClient.analyze: any exception of the call or the parse gives {}.
Analyze(r) ==
    IF CallApiRaises(r) THEN EmptyMap
    ELSE IF ParseResponse(r.body).raised THEN EmptyMap
    ELSE ParseResponse(r.body).value

(***************************************************************************)
(* The environment: what the service answers, within a budget of faults.    *)
(***************************************************************************)
\* Remote calls that fail: transport exception, non-200 status, a body that is
\* not JSON, an answer text that is not JSON, an envelope without candidates,
\* a body that is not an object.
FailureResponses ==
    { TransportError,
      Http(500, JNull),
      Http(HttpOk, InvalidBody),
      Http(HttpOk, Envelope("{not json")),
      Http(HttpOk, JMap([candidates |-> EmptyList])),
      Http(HttpOk, EmptyList) }

\* Well-formed answers to a task about listing f.
GoodAnswers(task, f) ==
    IF task = "complete_field_mappings"
    THEN {VariantDoc(task, f, "LOOKUP"), VariantDoc(task, f, "BOGUS")}
    ELSE {VariantDoc(task, f, "good")}

\* Answers that are valid JSON but not a mapping.
BadAnswers(task, f) == NonMappings

(***************************************************************************)
(* State after construction: EnhancedIntelligentFSDGenerator.__init__ made   *)
(* one mapper (one FSD Document) and process_multiple_files was called.      *)
(***************************************************************************)
\* Nothing rendered or parsed yet; the environment of the renderer is unused.
NoMarkdown == [t |-> "none"]
NoTable == [kind |-> "missing"]
NoParser == [lines |-> <<>>, line_no |-> 0]
\* No Word document is being filled.
WordIdle ==
    /\ docx = <<>>
    /\ title_info = <<>>
    /\ fault = "none"
    /\ steps = <<>>
    /\ template = <<>>
    /\ saved_doc = <<>>
    /\ run = 0

\* config 'default_output_dir' (line 599).
DefaultOutputDir == "output"

\* No table of contents is being built; the service has no job and no task.
ServiceIdle ==
    /\ toc = <<>>
    /\ processing_jobs = <<>>
    /\ tasks = <<>>
    /\ output_dir = DefaultOutputDir

DocStagesIdle ==
    /\ markdown = NoMarkdown
    /\ parser = NoParser
    /\ parsed_data = <<>>
    /\ excel = NoTable
    /\ improve = "loop running"
    /\ WordIdle
    /\ ServiceIdle

NoSummary == [total_files |-> -1, successful |-> -1, failed |-> -1, results |-> <<>>]

InitWith(inputs, fails, bads) ==
    /\ html_files \in inputs
    /\ idx = 1
    /\ pc = "loop"
    /\ fsd_document = MapperInit
    /\ results = <<>>
    /\ task_no = 1
    /\ in_flight = {}
    /\ call_log = <<>>
    /\ response = NoResponse
    /\ failed_calls = {}
    /\ served = <<>>
    /\ session = "none"
    /\ opens = 0
    /\ closes = 0
    /\ pending_error = ""
    /\ merges = 0
    /\ merge_raised = FALSE
    /\ template_exists = FALSE
    /\ dir_template = FALSE
    /\ written = {}
    /\ output_files = {}
    /\ word_result = "none"
    /\ raised_at = ""
    /\ batch_results = <<>>
    /\ attempts = <<>>
    /\ successful = 0
    /\ failed = 0
    /\ summary = NoSummary
    /\ fail_budget = fails
    /\ bad_budget = bads
    /\ DocStagesIdle

(***************************************************************************)
(* process_file up to the `async with` of analyze_and_map (lines 1787-1801,  *)
(* 1165-1177): the existence check and extract_all.                          *)
(***************************************************************************)
ProcessFile ==
    /\ pc = "loop"
    /\ idx <= Len(html_files)
    /\ results' = <<>>
    /\ task_no' = 1
    /\ call_log' = <<>>
    /\ response' = NoResponse
    /\ failed_calls' = {}
    /\ served' = <<>>
    /\ session' = "none"
    /\ opens' = 0
    /\ closes' = 0
    /\ written' = {}
    /\ output_files' = {}
    /\ word_result' = "none"
    /\ template_exists' = FALSE
    /\ dir_template' = FALSE
    /\ IF FileExists(html_files[idx])
       THEN /\ fsd_document' =
                  [fsd_document EXCEPT !.document_location = JStr(Basename(html_files[idx]))]
            /\ pending_error' = ""
            /\ raised_at' = ""
            /\ pc' = "aenter"
       ELSE /\ fsd_document' = fsd_document
            /\ pending_error' = "HTML file not found: " \o html_files[idx]
            /\ raised_at' = "exists"
            /\ pc' = "except"
    /\ merge_raised' = FALSE
    /\ UNCHANGED <<html_files, idx, in_flight, merges, batch_results, attempts,
                   successful, failed, summary, fail_budget, bad_budget>>
    /\ UNCHANGED doc_vars

\* LLMClient.__aenter__ (lines 1017-1019) and the start of the battery.
SessionEnter ==
    /\ pc = "aenter"
    /\ session' = "open"
    /\ opens' = opens + 1
    /\ pc' = "issue"
    /\ UNCHANGED <<html_files, idx, fsd_document, results, task_no, in_flight, call_log,
                   response, failed_calls, served, closes, pending_error, merges,
                   merge_raised, template_exists, dir_template, written, output_files,
                   word_result, raised_at, batch_results, attempts, successful, failed,
                   summary, fail_budget, bad_budget>>
    /\ UNCHANGED doc_vars

\* The loop body up to the suspension in session.post (lines 1201-1204, 1084).
IssueCall ==
    /\ pc = "issue"
    /\ task_no <= NumTasks
    /\ in_flight' = in_flight \cup {AnalysisTasks[task_no]}
    /\ call_log' = Append(call_log, [task |-> AnalysisTasks[task_no], session |-> session])
    /\ pc' = "await"
    /\ UNCHANGED <<html_files, idx, fsd_document, results, task_no, response, failed_calls,
                   served, session, opens, closes, pending_error, merges, merge_raised,
                   template_exists, dir_template, written, output_files, word_result,
                   raised_at, batch_results, attempts, successful, failed, summary,
                   fail_budget, bad_budget>>
    /\ UNCHANGED doc_vars

\* The service (or the transport) answers the call in flight.
ServiceRespond ==
    /\ pc = "await"
    /\ LET task == AnalysisTasks[task_no]
           f == html_files[idx]
       IN  \/ /\ fail_budget > 0
              /\ \E r \in FailureResponses : response' = r
              /\ failed_calls' = failed_calls \cup {task}
              /\ served' = served
              /\ fail_budget' = fail_budget - 1
              /\ bad_budget' = bad_budget
           \/ /\ \E doc \in GoodAnswers(task, f) :
                    /\ response' = Http(HttpOk, Envelope(JsonDumps(doc)))
                    /\ served' = (task :> doc) @@ served
              /\ UNCHANGED <<failed_calls, fail_budget, bad_budget>>
           \/ /\ bad_budget > 0
              /\ \E doc \in BadAnswers(task, f) :
                    /\ response' = Http(HttpOk, Envelope(JsonDumps(doc)))
                    /\ served' = (task :> doc) @@ served
              /\ bad_budget' = bad_budget - 1
              /\ UNCHANGED <<failed_calls, fail_budget>>
    /\ in_flight' = in_flight \ {AnalysisTasks[task_no]}
    /\ pc' = "answered"
    /\ UNCHANGED <<html_files, idx, fsd_document, results, task_no, call_log, session,
                   opens, closes, pending_error, merges, merge_raised, template_exists,
                   dir_template, written, output_files, word_result, raised_at,
                   batch_results, attempts, successful, failed, summary>>
    /\ UNCHANGED doc_vars

\* llm.analyze returns and the loop stores the result (lines 1204-1205, 1025-1033).
AnalyzeReturn ==
    /\ pc = "answered"
    /\ results' = (AnalysisTasks[task_no] :> Analyze(response)) @@ results
    /\ response' = NoResponse
    /\ task_no' = task_no + 1
    /\ pc' = IF task_no = NumTasks THEN "merge" ELSE "issue"
    /\ UNCHANGED <<html_files, idx, fsd_document, in_flight, call_log, failed_calls, served,
                   session, opens, closes, pending_error, merges, merge_raised,
                   template_exists, dir_template, written, output_files, word_result,
                   raised_at, batch_results, attempts, successful, failed, summary,
                   fail_budget, bad_budget>>
    /\ UNCHANGED doc_vars

\* A faulty variant of the session handling: __aexit__ is called after the
\* body instead of by `async with`, so an exception of the body skips it.
AfterMergeSkipsExit(raised) == IF raised THEN "except" ELSE "aexit"

\* Where control goes when the body of `async with` ends, normally or by an
\* exception: __aexit__ runs either way.
AfterMerge(raised) == "aexit"

\* `await self._map_fixed_results_to_fsd(results)` (line 1211).
MapResults ==
    /\ pc = "merge"
    /\ LET m == MapFixedResultsToFsd(fsd_document, results)
       IN  /\ fsd_document' = m.doc
           /\ merge_raised' = m.raised
           /\ pending_error' = IF m.raised THEN "merge raised" ELSE ""
           /\ raised_at' = IF m.raised THEN "merge" ELSE ""
           /\ pc' = AfterMerge(m.raised)
    /\ merges' = merges + 1
    /\ UNCHANGED <<html_files, idx, results, task_no, in_flight, call_log, response,
                   failed_calls, served, session, opens, closes, template_exists,
                   dir_template, written, output_files, word_result, batch_results,
                   attempts, successful, failed, summary, fail_budget, bad_budget>>
    /\ UNCHANGED doc_vars

\* LLMClient.__aexit__ (lines 1021-1023); an exception of the body propagates after it.
SessionExit ==
    /\ pc = "aexit"
    /\ session' = IF session = "open" THEN "closed" ELSE session
    /\ closes' = IF session = "open" THEN closes + 1 ELSE closes
    /\ pc' = IF pending_error # "" THEN "except" ELSE "outputs"
    /\ UNCHANGED <<html_files, idx, fsd_document, results, task_no, in_flight, call_log,
                   response, failed_calls, served, opens, pending_error, merges,
                   merge_raised, template_exists, dir_template, written, output_files,
                   word_result, raised_at, batch_results, attempts, successful, failed,
                   summary, fail_budget, bad_budget>>
    /\ UNCHANGED doc_vars

(***************************************************************************)
(* Text.  A text is a sequence of tokens: the characters the Markdown       *)
(* parser looks at ("#", "|", " ", "\n") are tokens of their own, and any   *)
(* other run of characters is one token that neither starts nor ends with   *)
(* one of them.                                                              *)
(***************************************************************************)
Newline == "\n"

\* f"{value}"
Fmt(v) ==
    CASE v.t = "str" -> IF v.s = "" THEN <<>> ELSE <<v.s>>
      [] v.t = "null" -> <<"None">>
      [] v.t = "bool" -> IF v.b THEN <<"True">> ELSE <<"False">>
      [] v.t = "num" -> <<ToString(v.n)>>
      [] v.t = "enum" -> <<"FieldProcessingType." \o v.value>>
      [] v.t = "list" -> <<"[" \o ToString(Len(v.xs)) \o " items]">>
      [] v.t = "map" -> <<"{" \o ToString(Cardinality(DOMAIN v.m)) \o " keys}">>

\* str.startswith(prefix)
StartsWith(line, prefix) ==
    Len(line) >= Len(prefix) /\ SubSeq(line, 1, Len(prefix)) = prefix

\* str.strip()
RECURSIVE Strip(_)
Strip(line) ==
    IF line = <<>> THEN <<>>
    ELSE IF Head(line) \in {" ", Newline} THEN Strip(Tail(line))
    ELSE IF line[Len(line)] \in {" ", Newline} THEN Strip(SubSeq(line, 1, Len(line) - 1))
    ELSE line

\* sep.join(items[lo..hi]), by halves.
RECURSIVE JoinRange(_, _, _, _)
JoinRange(sep, items, lo, hi) ==
    IF lo > hi THEN <<>>
    ELSE IF lo = hi THEN items[lo]
    ELSE JoinRange(sep, items, lo, (lo + hi) \div 2) \o <<sep>>
             \o JoinRange(sep, items, (lo + hi) \div 2 + 1, hi)

\* sep.join(items)
JoinWith(sep, items) == JoinRange(sep, items, 1, Len(items))

\* Two runs of lines that meet inside a line: the last line of the first run,
\* the token between them and the first line of the second are one line.
Glue(left, token, right) ==
    SubSeq(left, 1, Len(left) - 1)
        \o <<left[Len(left)] \o <<token>> \o right[1]>>
        \o SubSeq(right, 2, Len(right))

\* text[lo..hi].split('\n'), by halves.
RECURSIVE SplitRange(_, _, _)
SplitRange(text, lo, hi) ==
    IF lo > hi THEN << <<>> >>
    ELSE IF text[(lo + hi) \div 2] = Newline
    THEN SplitRange(text, lo, (lo + hi) \div 2 - 1) \o SplitRange(text, (lo + hi) \div 2 + 1, hi)
    ELSE Glue(SplitRange(text, lo, (lo + hi) \div 2 - 1), text[(lo + hi) \div 2],
              SplitRange(text, (lo + hi) \div 2 + 1, hi))

\* text.split('\n')
SplitLines(text) == SplitRange(text, 1, Len(text))

(***************************************************************************)
(* The reference table (Requirement-List.xlsx) and the lookups into it.     *)
(***************************************************************************)
RicefwIds == {"RHR00A", "RHR00B"}

\* doc.startswith("RICEFW ID:"), for the entries the merge writes and a note.
IsRicefwEntry(doc) == \E id \in RicefwIds : doc = JStr("RICEFW ID: " \o id)

\* doc.split(":", 1)[1].strip()
RicefwIdOf(doc) == CHOOSE id \in RicefwIds : doc = JStr("RICEFW ID: " \o id)

\* The first entry of related_documents that names a RICEFW ID (the loops
\* `break` after it), or 0.
FirstRicefw(related_documents) ==
    IF \E i \in 1..Len(related_documents) : IsRicefwEntry(related_documents[i])
    THEN CHOOSE i \in 1..Len(related_documents) :
            /\ IsRicefwEntry(related_documents[i])
            /\ \A j \in 1..(i - 1) : ~IsRicefwEntry(related_documents[j])
    ELSE 0

\* A cell of the sheet holding text (an empty cell is None).
Cell(text) == [t |-> "cell", text |-> text]

\* str(cell).strip() of a cell's text.
CellText(cell) ==
    IF Strip(cell.text) = <<>> THEN JStr("") ELSE JStr(Strip(cell.text)[1])

\* A lookup: None unless the file exists, loads, has both columns and has a
\* row whose stripped id is ricefw_id; then that row's stripped cell (None for
\* an empty cell).  Every exception of openpyxl is caught.
LookupCell(table, ricefw_id, column) ==
    IF table.kind # "table" THEN JNull
    ELSE IF \A i \in 1..Len(table.rows) : Strip(table.rows[i].id) # <<ricefw_id>> THEN JNull
    ELSE LET k == CHOOSE i \in 1..Len(table.rows) :
                      /\ Strip(table.rows[i].id) = <<ricefw_id>>
                      /\ \A j \in 1..(i - 1) : Strip(table.rows[j].id) # <<ricefw_id>>
         IN  IF table.rows[k][column].t = "null" THEN JNull ELSE CellText(table.rows[k][column])

\* _lookup_assign_nodin
LookupAssignNodin(table, ricefw_id) == LookupCell(table, ricefw_id, "nodin")

\* _lookup_requirement_description
LookupRequirementDescription(table, ricefw_id) == LookupCell(table, ricefw_id, "desc")

\* The value a loop over related_documents leaves: the lookup of the first
\* RICEFW entry if it is truthy, else the default.
LookedUp(doc, table, column, default) ==
    LET i == FirstRicefw(doc.related_documents)
    IN  IF i = 0 THEN default
        ELSE IF Truthy(LookupCell(table, RicefwIdOf(doc.related_documents[i]), column))
        THEN LookupCell(table, RicefwIdOf(doc.related_documents[i]), column)
        ELSE default

(***************************************************************************)
(* _improve_text and _compose_report_description.                            *)
(***************************************************************************)
\* What the polishing call does: asyncio.run raises inside a running event
\* loop; analyze fails and returns {}; analyze returns a value without .get;
\* analyze returns {"result": polished}.
ImproveOutcomes == {"loop running", "call failed", "not a mapping", "polished"}

Polished == <<"polished text">>

\* A polishing step that loses the text when the call fails.
ImproveTextDropping(text, outcome) == IF outcome = "polished" THEN Polished ELSE <<>>

\* _improve_text(text)
ImproveText(text, outcome) == IF outcome = "polished" THEN Polished ELSE text

\* The sentences _compose_report_description adds for the counts.
ParameterSentence(n) ==
    <<"Report ini memiliki " \o ToString(n) \o " parameter selection screen.">>
FieldSentence(n) == <<"Proses detail mencakup " \o ToString(n) \o " field utama.">>
DefaultSentence ==
    <<"Report ini dirancang untuk memenuhi kebutuhan bisnis yang telah ditentukan.">>

\* The `description` of _compose_report_description: " ".join(parts).
ComposedDescription(doc, table) ==
    LET base_desc == LookedUp(doc, table, "desc", doc.user_requirements)
        parts ==
            (IF Truthy(base_desc) THEN <<Fmt(base_desc)>> ELSE <<>>)
            \o (IF doc.selection_parameters # <<>>
                THEN <<ParameterSentence(Len(doc.selection_parameters))>> ELSE <<>>)
            \o (IF doc.field_mappings # <<>>
                THEN <<FieldSentence(Len(doc.field_mappings))>> ELSE <<>>)
    IN  JoinWith(" ", IF parts = <<>> THEN <<DefaultSentence>> ELSE parts)

\* _compose_report_description(fsd_document)
ComposeReportDescription(doc, table, outcome) ==
    IF Truthy(doc.desain_report_description) THEN Fmt(doc.desain_report_description)
    ELSE ImproveText(ComposedDescription(doc, table), outcome)

(***************************************************************************)
(* _generate_markdown: the lines of md_lines, block by block.               *)
(***************************************************************************)
Blank == <<>>

H2(title) == <<"#", "#", " ">> \o title
H3(title) == <<"#", "#", "#", " ">> \o title

\* f"| {a} | {b} | ... |"
RECURSIVE Cells(_)
Cells(cells) ==
    IF cells = <<>> THEN <<>> ELSE <<" ">> \o Head(cells) \o <<" ", "|">> \o Cells(Tail(cells))

TableRow(cells) == <<"|">> \o Cells(cells)

\* The two literal lines that open a table.
HeaderRow(columns) == <<"|", " ", columns, " ", "|">>
SeparatorRow(dashes) == <<"|", dashes, "|">>

\* "Yes" if flag else "No"
YesNo(flag) == IF Truthy(flag) THEN <<"Yes">> ELSE <<"No">>

\* A renderer without `if rows:`.
ShownAlways(rows) == TRUE

\* `if rows:` in front of every record list's block.
Shown(rows) == rows # <<>>

\* Lines 764-771.
TitleLines(doc) ==
    << <<"#", " ", "Functional Specification Design (FSD)">>,
       H2(Fmt(doc.program_name)),
       H3(Fmt(doc.report_description)),
       Blank,
       <<"**Generated on:** 2024-01-01 00:00:00">>,
       Blank >>

\* Lines 784-794: one line per related document.
RelatedLine(entry, table) ==
    IF IsRicefwEntry(entry) /\ Truthy(LookupAssignNodin(table, RicefwIdOf(entry)))
    THEN <<" ", " ", "- RICEFW ID:", " ">> \o Fmt(LookupAssignNodin(table, RicefwIdOf(entry)))
    ELSE <<" ", " ", "-", " ">> \o Fmt(entry)

ReviewerLine(reviewer) ==
    <<" ", " ", "-", " ">> \o Fmt(reviewer.role) \o <<":", " ">> \o Fmt(reviewer.name)

VersionLine(version) ==
    <<" ", " ", "-", " ">> \o Fmt(version.version) \o <<":", " ">> \o Fmt(version.change)
        \o <<" ", "by", " ">> \o Fmt(version.author) \o <<" ", "on", " ">> \o Fmt(version.date)

\* Lines 774-807.
InfoLines(doc, table) ==
    << H2(<<"1. INFORMASI DOKUMEN">>),
       Blank,
       <<"- **Project**:", " ">> \o Fmt(doc.project_name),
       <<"- **Document Location**:", " ">> \o Fmt(doc.document_location),
       Blank >>
    \o (IF doc.related_documents # <<>>
        THEN << <<"- **Related Documents**:">> >>
             \o [i \in 1..Len(doc.related_documents) |-> RelatedLine(doc.related_documents[i], table)]
             \o <<Blank>>
        ELSE <<>>)
    \o (IF doc.reviewers # <<>>
        THEN << <<"- **Reviewers**:">> >>
             \o [i \in 1..Len(doc.reviewers) |-> ReviewerLine(doc.reviewers[i])]
             \o <<Blank>>
        ELSE <<>>)
    \o (IF doc.version_history # <<>>
        THEN << <<"- **Version History**:">> >>
             \o [i \in 1..Len(doc.version_history) |-> VersionLine(doc.version_history[i])]
             \o <<Blank>>
        ELSE <<>>)

\* Lines 810-817: the requirement text, from the table if it has one.
RequirementValue(doc, table, outcome) ==
    IF LookedUp(doc, table, "desc", JNull) # JNull
    THEN ImproveText(Fmt(LookedUp(doc, table, "desc", JNull)), outcome)
    ELSE Fmt(doc.user_requirements)

\* `for assumption in assumptions`: the items of a list, the keys of a mapping,
\* nothing for an empty string.
AssumptionItems(assumptions) ==
    CASE assumptions.t = "list" -> [i \in 1..Len(assumptions.xs) |-> Fmt(assumptions.xs[i])]
      [] assumptions.t = "str" /\ assumptions.s = "" -> <<>>
      [] assumptions.t = "map" /\ DOMAIN assumptions.m = {} -> <<>>

\* Lines 820-831.
RequirementLines(doc, table, outcome) ==
    << H2(<<"2. PERSYARATAN UMUM">>),
       Blank,
       <<"**User Requirements**:", " ">> \o RequirementValue(doc, table, outcome),
       Blank,
       <<"**Assumptions**:">> >>
    \o [i \in 1..Len(AssumptionItems(doc.assumptions)) |->
            <<"-", " ">> \o AssumptionItems(doc.assumptions)[i]]
    \o <<Blank>>

\* Lines 834-841: the alias of the first RICEFW entry, else program_name.
ProgramNameValue(doc, table) == LookedUp(doc, table, "nodin", doc.program_name)

\* Lines 845-853.
ProgramNameLine(doc, table) == <<"- **Program Name**:", " ">> \o Fmt(ProgramNameValue(doc, table))

SapObjectLines(doc, table) ==
    << H2(<<"3. EXISTING SAP OBJECTS">>),
       Blank,
       ProgramNameLine(doc, table),
       <<"- **Transaction Code**:", " ">> \o Fmt(doc.transaction_code),
       <<"- **Menu Path**:", " ">> \o Fmt(doc.menu_path),
       Blank >>

\* Lines 856-864.
DesainLines(doc, table, outcome) ==
    << H2(<<"4. DESAIN">>),
       Blank,
       H3(<<"4.1 Description detail dari Report">>),
       Blank,
       ComposeReportDescription(doc, table, outcome),
       Blank >>

\* One record list's block: heading, blank, header, separator, rows.
TableBlock(heading, columns, dashes, rows, closing) ==
    IF Shown(rows)
    THEN <<heading, Blank, HeaderRow(columns), SeparatorRow(dashes)>> \o rows \o closing
    ELSE <<>>

\* Line 879.
SelectionRow(param) ==
    TableRow(<<Fmt(param.name), Fmt(param.type), Fmt(param.description),
               YesNo(param.is_mandatory), YesNo(param.is_select_option),
               YesNo(param.has_no_intervals)>>)

\* Lines 867-881.
SelectionLines(doc) ==
    TableBlock(H3(<<"4.2 Selection Screen">>),
               "Parameter | Type | Description | Mandatory | Select-Option | No Intervals",
               "-----------|------|-------------|-----------|---------------|--------------",
               [i \in 1..Len(doc.selection_parameters) |-> SelectionRow(doc.selection_parameters[i])],
               <<Blank>>)

\* Lines 893-894: processing_type is always an enum member here.
FieldRow(field) ==
    TableRow(<<Fmt(field.display_name), Fmt(field.technical_field), Fmt(field.source_table),
               Fmt(field.processing_logic), <<field.processing_type.value>> >>)

\* Lines 884-896.
FieldLines(doc) ==
    TableBlock(H3(<<"4.3 Detail Processing">>),
               "Field Name | Technical Field | Source Table | Processing Logic | Processing Type",
               "------------|-----------------|--------------|------------------|-----------------",
               [i \in 1..Len(doc.field_mappings) |-> FieldRow(doc.field_mappings[i])],
               <<Blank>>)

DataRow(row) == TableRow(<<Fmt(row.data), Fmt(row.condition)>>)

\* Lines 898-909 and append_form (lines 911-922).
DataBlock(title, rows) ==
    TableBlock(H3(<<title>>), "Data | Kondisi", "------|---------",
               [i \in 1..Len(rows) |-> DataRow(rows[i])], <<Blank>>)

ErrorRow(i, error) ==
    TableRow(<< <<ToString(i)>>, Fmt(error.error_description), Fmt(error.resolution),
                Fmt(error.error_code), Fmt(error.severity)>>)

\* Lines 929-940.
ErrorLines(doc) ==
    TableBlock(H2(<<"5. PENANGANAN ERROR">>),
               "No | Error Description | Resolution | Error Code | Severity",
               "----|-------------------|------------|------------|----------",
               [i \in 1..Len(doc.error_scenarios) |-> ErrorRow(i, doc.error_scenarios[i])],
               <<Blank>>)

TestRow(i, test) ==
    TableRow(<< <<ToString(i)>>, Fmt(test.condition), Fmt(test.expected_result),
                Fmt(test.test_data), Fmt(test.priority)>>)

\* Lines 943-952.
TestLines(doc) ==
    TableBlock(H2(<<"6. PERSYARATAN PENGUJIAN">>),
               "No | Test Condition | Expected Result | Test Data | Priority",
               "----|----------------|-----------------|-----------|----------",
               [i \in 1..Len(doc.test_scenarios) |-> TestRow(i, doc.test_scenarios[i])],
               <<>>)

\* md_lines when _generate_markdown reaches its return.
MdLines(doc, table, outcome) ==
    TitleLines(doc) \o InfoLines(doc, table) \o RequirementLines(doc, table, outcome)
    \o SapObjectLines(doc, table) \o DesainLines(doc, table, outcome)
    \o SelectionLines(doc) \o FieldLines(doc)
    \o DataBlock("4.4 Detail Process Only valid datasets", doc.valid_dataset_rules)
    \o DataBlock("Form Get_Country_Info", doc.country_info)
    \o DataBlock("Form Get_Currency_T500C", doc.currency_t500c)
    \o DataBlock("Form Get_Currency_T001", doc.currency_t001)
    \o ErrorLines(doc) \o TestLines(doc)

\* Where _generate_markdown raises TypeError, if it does: the loop over
\* assumptions that are not iterable (line 829), " ".join over a requirement
\* text that is not a string (line 756), '\n'.join over an explicit design
\* description that is not a string (line 954).
MarkdownRaisesAt(doc, table) ==
    IF doc.assumptions.t \in {"null", "num", "bool"} THEN "assumptions"
    ELSE IF Truthy(doc.desain_report_description)
    THEN (IF doc.desain_report_description.t # "str" THEN "join" ELSE "")
    ELSE IF /\ Truthy(LookedUp(doc, table, "desc", doc.user_requirements))
            /\ LookedUp(doc, table, "desc", doc.user_requirements).t # "str"
    THEN "compose"
    ELSE ""

\* _generate_markdown(fsd_document)
GenerateMarkdown(doc, table, outcome) ==
    IF MarkdownRaisesAt(doc, table) # ""
    THEN [t |-> "raised", at |-> MarkdownRaisesAt(doc, table)]
    ELSE [t |-> "text", text |-> JoinWith(Newline, MdLines(doc, table, outcome))]


(***************************************************************************)
(* MarkdownParser.parse.  parsed_data maps 'title' to the title and every   *)
(* section name to a dict with an optional 'content' list and an optional   *)
(* 'subsections' dict; None is the empty text.                               *)
(***************************************************************************)
None == <<>>

NoContent == [present |-> FALSE, lines |-> <<>>]

EmptyParsedData == [title |-> None, sections |-> <<>>]

\* `if section not in self.parsed_data: self.parsed_data[section] = {}`
WithSection(data, section) ==
    [data EXCEPT !.sections =
        data.sections @@ (section :> [content |-> NoContent, subsections |-> <<>>])]

\* _save_subsection(section, subsection, content)
SaveSubsection(data, section, subsection, content) ==
    [WithSection(data, section) EXCEPT !.sections[section].subsections =
        (subsection :> content) @@ WithSection(data, section).sections[section].subsections]

\* _save_section(section, subsection, content)
SaveSection(data, section, subsection, content) ==
    IF subsection # None THEN SaveSubsection(data, section, subsection, content)
    ELSE [WithSection(data, section) EXCEPT
            !.sections[section].content = [present |-> TRUE, lines |-> content]]

\* The parser's locals before the loop; lines = markdown_content.split('\n').
ParserStart(text) ==
    [lines |-> SplitLines(text), line_no |-> 1, data |-> EmptyParsedData,
     current_section |-> None, current_subsection |-> None, current_content |-> <<>>]

\* The body of the loop, on the stripped line (a table row is appended to the
\* content like any other non-empty line).
ParseLine(st, line) ==
    IF StartsWith(line, <<"#", " ">>)
    THEN [st EXCEPT !.data.title = Strip(SubSeq(line, 3, Len(line)))]
    ELSE IF StartsWith(line, <<"#", "#", " ">>)
    THEN [st EXCEPT
            !.data = IF st.current_section # None
                     THEN SaveSection(st.data, st.current_section, st.current_subsection,
                                      st.current_content)
                     ELSE st.data,
            !.current_section = Strip(SubSeq(line, 4, Len(line))),
            !.current_subsection = None,
            !.current_content = <<>>]
    ELSE IF StartsWith(line, <<"#", "#", "#", " ">>)
    THEN [st EXCEPT
            !.data = IF st.current_subsection # None
                     THEN SaveSubsection(st.data, st.current_section, st.current_subsection,
                                         st.current_content)
                     ELSE st.data,
            !.current_subsection = Strip(SubSeq(line, 5, Len(line))),
            !.current_content = <<>>]
    ELSE IF line # <<>>
    THEN [st EXCEPT !.current_content = Append(@, line)]
    ELSE st

\* `if current_section: self._save_section(...)` after the loop.
ParseReturn(st) ==
    IF st.current_section # None
    THEN SaveSection(st.data, st.current_section, st.current_subsection, st.current_content)
    ELSE st.data

(***************************************************************************)
(* The output stage of process_file.                                         *)
(***************************************************************************)
\* Whether _generate_markdown raises, with the reference table as it is.
RenderRaises(doc) == MarkdownRaisesAt(doc, excel) # ""

\* Whether generate_all_outputs sets outputs['docx'] (lines 622-634).
DocxKey(template_found, dir_found) == template_found \/ dir_found

\* The keys of the mapping generate_all_outputs returns.
OutputKeys(template_found, dir_found) ==
    {"markdown", "json", "summary"} \cup
    (IF DocxKey(template_found, dir_found) THEN {"docx"} ELSE {})

\* generate_all_outputs (lines 603-641).  The environment decides whether the
\* template path exists, whether the template directory holds a template and
\* whether filling the template works; _generate_word_document swallows failures.
GenerateOutputs ==
    /\ pc = "outputs"
    /\ IF RenderRaises(fsd_document)
       THEN /\ pending_error' = "TypeError"
            /\ raised_at' = "markdown"
            /\ pc' = "except"
            /\ UNCHANGED <<template_exists, dir_template, written, output_files>>
       ELSE /\ \E te \in BOOLEAN, dt \in BOOLEAN, fill_ok \in BOOLEAN :
                 /\ template_exists' = te
                 /\ dir_template' = (~te /\ dt)
                 /\ written' = {"markdown", "json", "summary"} \cup
                               (IF (te \/ dt) /\ fill_ok THEN {"docx"} ELSE {})
                 /\ output_files' = OutputKeys(te, ~te /\ dt)
            /\ pc' = "convert"
            /\ UNCHANGED <<pending_error, raised_at>>
    /\ UNCHANGED <<html_files, idx, fsd_document, results, task_no, in_flight, call_log,
                   response, failed_calls, served, session, opens, closes, merges,
                   merge_raised, word_result, batch_results, attempts, successful, failed,
                   summary, fail_budget, bad_budget>>
    /\ UNCHANGED doc_vars

\* A faulty variant of the Word generator: no check that the template exists.
GenerateWithoutTemplateCheck(template_found, save_ok) ==
    IF save_ok THEN "true" ELSE "false"

\* TitlePageWordGenerator.generate_with_proper_tables: False without a template
\* (lines 1046-1048), else whether the fill and the save worked (lines 1050-1363).
GenerateWithProperTables(template_found, save_ok) ==
    IF ~template_found THEN "false" ELSE IF save_ok THEN "true" ELSE "false"

\* The final conversion (lines 1818-1829): generate_complete_document may raise
\* before the Word generator is called; process_file logs it and goes on.
ConvertFinal ==
    /\ pc = "convert"
    /\ \E conv_raises \in BOOLEAN, save_ok \in BOOLEAN :
          /\ word_result' = IF conv_raises THEN "not called"
                            ELSE GenerateWithProperTables(template_exists, save_ok)
          /\ output_files' = IF word_result' = "true"
                             THEN output_files \cup {"final_docx"} ELSE output_files
          /\ written' = IF word_result' = "true"
                        THEN written \cup {"final_docx"} ELSE written
    /\ pc' = "return"
    /\ UNCHANGED <<html_files, idx, fsd_document, results, task_no, in_flight, call_log,
                   response, failed_calls, served, session, opens, closes, pending_error,
                   merges, merge_raised, template_exists, dir_template, raised_at,
                   batch_results, attempts, successful, failed, summary, fail_budget,
                   bad_budget>>
    /\ UNCHANGED doc_vars

(***************************************************************************)
(* process_multiple_files (lines 1857-1885).                                 *)
(***************************************************************************)
NoDoc == [t |-> "none"]

\* process_file returned: results[html_file] = file_results; successful += 1.
ReturnFile ==
    /\ pc = "return"
    /\ batch_results' =
          (html_files[idx] :> [has_error |-> FALSE, error |-> "",
                               output_files |-> output_files,
                               fsd_document |-> DataclassToDict(fsd_document)])
          @@ batch_results
    /\ attempts' = Append(attempts, [file |-> html_files[idx], ok |-> TRUE, error |-> ""])
    /\ successful' = successful + 1
    /\ idx' = idx + 1
    /\ pc' = "loop"
    /\ UNCHANGED <<html_files, fsd_document, results, task_no, in_flight, call_log, response,
                   failed_calls, served, session, opens, closes, pending_error, merges,
                   merge_raised, template_exists, dir_template, written, output_files,
                   word_result, raised_at, failed, summary, fail_budget, bad_budget>>
    /\ UNCHANGED doc_vars

\* process_file raised: results[html_file] = {'error': str(e)}; failed += 1.
ExceptFile ==
    /\ pc = "except"
    /\ batch_results' =
          (html_files[idx] :> [has_error |-> TRUE, error |-> pending_error,
                               output_files |-> {}, fsd_document |-> NoDoc])
          @@ batch_results
    /\ attempts' = Append(attempts, [file |-> html_files[idx], ok |-> FALSE,
                                     error |-> pending_error])
    /\ failed' = failed + 1
    /\ idx' = idx + 1
    /\ pc' = "loop"
    /\ UNCHANGED <<html_files, fsd_document, results, task_no, in_flight, call_log, response,
                   failed_calls, served, session, opens, closes, pending_error, merges,
                   merge_raised, template_exists, dir_template, written, output_files,
                   word_result, raised_at, successful, summary, fail_budget, bad_budget>>
    /\ UNCHANGED doc_vars

\* The loop is over: the summary is built and returned.
Summarize ==
    /\ pc = "loop"
    /\ idx > Len(html_files)
    /\ summary' = [total_files |-> Len(html_files), successful |-> successful,
                   failed |-> failed, results |-> batch_results]
    /\ pc' = "done"
    /\ UNCHANGED <<html_files, idx, fsd_document, results, task_no, in_flight, call_log,
                   response, failed_calls, served, session, opens, closes, pending_error,
                   merges, merge_raised, template_exists, dir_template, written,
                   output_files, word_result, raised_at, batch_results, attempts,
                   successful, failed, fail_budget, bad_budget>>
    /\ UNCHANGED doc_vars

Next ==
    \/ ProcessFile
    \/ SessionEnter
    \/ IssueCall
    \/ ServiceRespond
    \/ AnalyzeReturn
    \/ MapResults
    \/ SessionExit
    \/ GenerateOutputs
    \/ ConvertFinal
    \/ ReturnFile
    \/ ExceptFile
    \/ Summarize

(***************************************************************************)
(* Spec: one call of process_multiple_files on a single path; any of the     *)
(* nine remote calls may fail, and MaxBad of them may be answered with JSON  *)
(* that is not a mapping.                                                    *)
(***************************************************************************)
MaxBad == 1

SingleInputs == {<<"up/a.html">>, <<"up/missing.html">>}

Init == InitWith(SingleInputs, NumTasks, MaxBad)

Spec == Init /\ [][Next]_vars

(***************************************************************************)
(* SpecBatch: process_multiple_files on lists of 2..MaxFiles paths (a path   *)
(* may occur twice), with at most MaxBatchFails failing calls and            *)
(* MaxBatchBad non-mapping answers over the whole batch.                     *)
(***************************************************************************)
MaxFiles == 2
MaxBatchFails == 1
MaxBatchBad == 1

BatchInputs == UNION {[1..n -> Files] : n \in 2..MaxFiles}

InitBatch == InitWith(BatchInputs, MaxBatchFails, MaxBatchBad)

SpecBatch == InitBatch /\ [][Next]_vars

(***************************************************************************)
(* SpecMerge: _map_fixed_results_to_fsd as a function of its argument.  Init *)
(* draws nine task results, at most MaxMalformed of them malformed, and the  *)
(* action merges them into the mapper's document, up to MaxMerges times.     *)
(***************************************************************************)
MaxMerges == 2
MaxMalformed == 1

MergeFile == "up/a.html"

\* A task's result that is malformed: its record-list key maps to null, its
\* list holds an element that is not a mapping, or it is not a mapping at all.
MalformedResults(task) ==
    {NullListDoc(task, MergeFile), BadElemDoc(task, MergeFile)} \cup NonMappings

\* Nine results: the tasks of `answered` returned a well-formed document,
\* the others the empty mapping.
BaseResults(answered, processing_type) ==
    [task \in TaskSet |->
        IF task \in answered THEN GoodDoc(task, MergeFile, processing_type) ELSE EmptyMap]

\* All nine tasks answered, all but one, or none.
AnsweredSets == {TaskSet \ {task} : task \in TaskSet} \cup {TaskSet, {}}

\* The results with at most n malformed ones.
RECURSIVE WithMalformed(_)
WithMalformed(n) ==
    IF n = 0
    THEN {BaseResults(answered, pt) : answered \in AnsweredSets, pt \in ProcessingTypeInputs}
    ELSE LET prev == WithMalformed(n - 1)
         IN  prev \cup UNION { { [r EXCEPT ![task] = m] : m \in MalformedResults(task), r \in prev } :
                               task \in TaskSet }

\* The document the mapper holds when the merge is first called (lines 1163, 1176).
MergeStart == [MapperInit EXCEPT !.document_location = JStr(Basename(MergeFile))]

InitMerge ==
    /\ html_files = <<MergeFile>>
    /\ idx = 1
    /\ pc = "merge"
    /\ fsd_document = MergeStart
    /\ results \in WithMalformed(MaxMalformed)
    /\ task_no = NumTasks + 1
    /\ in_flight = {}
    /\ call_log = <<>>
    /\ response = NoResponse
    /\ failed_calls = {}
    /\ served = <<>>
    /\ session = "open"
    /\ opens = 1
    /\ closes = 0
    /\ pending_error = ""
    /\ merges = 0
    /\ merge_raised = FALSE
    /\ template_exists = FALSE
    /\ dir_template = FALSE
    /\ written = {}
    /\ output_files = {}
    /\ word_result = "none"
    /\ raised_at = ""
    /\ batch_results = <<>>
    /\ attempts = <<>>
    /\ successful = 0
    /\ failed = 0
    /\ summary = NoSummary
    /\ fail_budget = 0
    /\ bad_budget = 0
    /\ DocStagesIdle

\* One more call of _map_fixed_results_to_fsd(results) on the same mapper.
Remap ==
    /\ pc = "merge"
    /\ merges < MaxMerges
    /\ LET m == MapFixedResultsToFsd(fsd_document, results)
       IN  /\ fsd_document' = m.doc
           /\ merge_raised' = m.raised
    /\ merges' = merges + 1
    /\ UNCHANGED <<html_files, idx, pc, results, task_no, in_flight, call_log, response,
                   failed_calls, served, session, opens, closes, pending_error,
                   template_exists, dir_template, written, output_files, word_result,
                   raised_at, batch_results, attempts, successful, failed, summary,
                   fail_budget, bad_budget>>
    /\ UNCHANGED doc_vars

NextMerge == Remap

SpecMerge == InitMerge /\ [][NextMerge]_vars

(***************************************************************************)
(* Properties of the single-file pipeline (Spec).                            *)
(***************************************************************************)
\* The battery of the current file is over.
BatteryOver ==
    \/ pc \in {"merge", "aexit", "outputs", "convert", "return"}
    \/ pc = "except" /\ raised_at # "exists"

\* C1: in one run of the battery, whatever subset of the nine remote calls
\* fails (exception, non-200 status, malformed JSON), all nine tasks are still
\* attempted, the result of exactly each failed task is the empty mapping, and
\* the mapping the service returned for every other task is stored unchanged.
BatteryIsolatesFailures ==
    /\ \A task \in DOMAIN results :
          IF task \in failed_calls
          THEN results[task] = EmptyMap
          ELSE task \in DOMAIN served /\ results[task] = served[task]
    /\ BatteryOver =>
          /\ DOMAIN results = TaskSet
          /\ Len(call_log) = NumTasks
          /\ {call_log[i].task : i \in 1..Len(call_log)} = TaskSet
    /\ (pc = "except" /\ bad_budget = MaxBad) => raised_at = "exists"

\* The battery ended with the first and the last call failed and the others
\* answered: the answers are stored next to the two empty mappings.
BatteryIsolatesFailuresWitness ==
    /\ pc = "merge"
    /\ failed_calls = {"basic_info", "authorization"}
    /\ results["basic_info"] = EmptyMap
    /\ results["authorization"] = EmptyMap
    /\ results["selection_screen"] = GoodDoc("selection_screen", "up/a.html", JStr("LOOKUP"))
    /\ Len(call_log) = NumTasks

\* C7: the remote session is opened exactly once per input file, every remote
\* call happens while it is open, and it is closed on every exit path of
\* analyze_and_map: all tasks succeeded, some failed, or the merge raised.
SessionOpenedOnceAndClosed ==
    /\ opens <= 1 /\ closes <= opens
    /\ \A i \in 1..Len(call_log) : call_log[i].session = "open"
    /\ pc \in {"issue", "await", "answered", "merge", "aexit"} =>
          session = "open" /\ opens = 1 /\ closes = 0
    /\ (pc \in {"outputs", "convert", "return"} \/ (pc = "except" /\ raised_at # "exists")) =>
          session = "closed" /\ opens = 1 /\ closes = 1

\* The merge raised and the session was closed before the exception reached
\* process_multiple_files.
SessionOpenedOnceAndClosedWitness ==
    /\ pc = "except"
    /\ raised_at = "merge"
    /\ merge_raised
    /\ session = "closed"
    /\ failed_calls # {}
    /\ Len(call_log) = NumTasks

\* The order the nine calls are issued in.
ClaimedOrder ==
    << "basic_info", "selection_screen", "complete_field_mappings",
       "complete_valid_datasets", "complete_lookup_forms", "error_handling",
       "test_scenarios", "validation_rules", "authorization" >>

\* C8: the nine calls are issued in the fixed order, at most one call is in
\* flight, call k+1 is issued only after call k has returned or failed, and the
\* merge into the document starts only after all nine have finished.
SequentialBattery ==
    /\ Len(call_log) <= Len(ClaimedOrder)
    /\ \A i \in 1..Len(call_log) : call_log[i].task = ClaimedOrder[i]
    /\ Cardinality(in_flight) <= 1
    /\ in_flight # {} => pc = "await"
    /\ pc = "issue" => Cardinality(DOMAIN results) = Len(call_log)
    /\ pc \in {"await", "answered"} => Cardinality(DOMAIN results) = Len(call_log) - 1
    /\ pc \in {"issue", "await", "answered", "merge"} =>
          fsd_document = [MapperInit EXCEPT
                            !.document_location = JStr(Basename(html_files[idx]))]
    /\ pc = "merge" => DOMAIN results = TaskSet /\ in_flight = {} /\ Len(call_log) = NumTasks

\* The ninth call is in flight after the eight before it finished, one of them
\* by failing.
SequentialBatteryWitness ==
    /\ pc = "await"
    /\ in_flight = {"authorization"}
    /\ Len(call_log) = NumTasks
    /\ Cardinality(DOMAIN results) = NumTasks - 1
    /\ "error_handling" \in failed_calls

\* C9: LLMClient.analyze returns a mapping for every service response; an
\* answer that is JSON but not a mapping gives the empty mapping.
AnalyzeAlwaysMapping ==
    \A task \in DOMAIN results :
        /\ results[task].t = "map"
        /\ (task \in DOMAIN served /\ served[task].t # "map") => results[task] = EmptyMap

\* C10: with the Word template missing and none in the template directory,
\* process_file writes Markdown, JSON and summary and returns normally,
\* generate_with_proper_tables returns failure without raising, and
\* output_files has neither 'docx' nor 'final_docx'.
MissingTemplateNoWord ==
    /\ (pc \in {"convert", "return"} /\ ~template_exists /\ ~dir_template) =>
          /\ {"markdown", "json", "summary"} \subseteq written
          /\ "docx" \notin output_files
          /\ "final_docx" \notin output_files
          /\ pending_error = ""
    /\ (pc = "return" /\ ~template_exists /\ ~dir_template) =>
          word_result \in {"false", "not called"}
    /\ pc = "except" => raised_at \in {"exists", "merge", "markdown"}

\* process_file is about to return after the Word generator reported failure
\* for the missing template.
MissingTemplateNoWordWitness ==
    /\ pc = "return"
    /\ ~template_exists /\ ~dir_template
    /\ word_result = "false"
    /\ written = {"markdown", "json", "summary"}
    /\ output_files = {"markdown", "json", "summary"}

(***************************************************************************)
(* Properties of process_multiple_files on several paths (SpecBatch).        *)
(***************************************************************************)
\* The document a mapper made for file f alone builds from the results res.
BuiltAlone(f, res) ==
    MapFixedResultsToFsd([MapperInit EXCEPT !.document_location = JStr(Basename(f))], res).doc

\* C2: the FSD Document produced for file fi of a batch is built only from
\* fi's own task results: no list entry comes from an earlier file, and with
\* an empty basic_info result its scalar fields are the defaults.
FileDocumentIndependent ==
    pc = "return" => fsd_document = BuiltAlone(html_files[idx], results)

\* C6: for every input list every file is attempted, successful + failed =
\* total_files = number of input files, results has an entry for each input
\* file, and the entry of a failed file carries its error message.
BatchAccounting ==
    pc = "done" =>
        /\ Len(attempts) = Len(html_files)
        /\ \A i \in 1..Len(html_files) : attempts[i].file = html_files[i]
        /\ summary.total_files = Len(html_files)
        /\ summary.successful + summary.failed = summary.total_files
        /\ \A i \in 1..Len(html_files) :
              /\ html_files[i] \in DOMAIN summary.results
              /\ ~attempts[i].ok =>
                    /\ summary.results[html_files[i]].has_error
                    /\ summary.results[html_files[i]].error = attempts[i].error

(***************************************************************************)
(* Properties of the merge (SpecMerge).                                      *)
(***************************************************************************)
\* The fields of the document a task's block of the merge writes.
OwnedFields(task) ==
    CASE task = "basic_info" ->
            {"program_name", "report_description", "desain_report_description",
             "user_requirements", "assumptions", "transaction_code", "menu_path",
             "related_documents", "version_history", "reviewers"}
      [] task = "selection_screen" -> {"selection_parameters"}
      [] task = "complete_field_mappings" -> {"field_mappings"}
      [] task = "complete_valid_datasets" -> {"valid_dataset_rules"}
      [] task = "complete_lookup_forms" -> {"country_info", "currency_t500c", "currency_t001"}
      [] task = "error_handling" -> {"error_scenarios"}
      [] task = "test_scenarios" -> {"test_scenarios"}
      [] task = "validation_rules" -> {"validation_rules"}
      [] task = "authorization" -> {"authorization_objects", "user_roles"}

MalformedTasks == {task \in TaskSet : results[task] \in MalformedResults(task)}

\* The results with every malformed one replaced by the empty mapping.
AsIfEmpty == [task \in TaskSet |-> IF task \in MalformedTasks THEN EmptyMap ELSE results[task]]

\* C3: with one task's result malformed, _map_fixed_results_to_fsd returns
\* without raising and the fields owned by the other eight tasks are populated
\* exactly as if the malformed task had returned the empty mapping.
MalformedResultIsolated ==
    (merges = 1 /\ MalformedTasks # {}) =>
        /\ ~merge_raised
        /\ \A fld \in DOMAIN fsd_document \ UNION {OwnedFields(task) : task \in MalformedTasks} :
              fsd_document[fld] = MapFixedResultsToFsd(MergeStart, AsIfEmpty).doc[fld]

\* C4: after _map_fixed_results_to_fsd has run, every list-typed field of the
\* document is a list, so _generate_markdown iterates them without raising.
\* (All list fields but `assumptions` are only appended to or extended; they
\* are sequences throughout.)
ListFieldsAreLists ==
    merges >= 1 =>
        /\ fsd_document.assumptions.t = "list"
        /\ ~RenderRaises(fsd_document)

\* The field-mapping records of the merged result, as the service gave them.
SourceMappings ==
    LET cfm == results["complete_field_mappings"]
    IN  IF cfm.t = "map" /\ Get(cfm, "field_mappings", EmptyList).t = "list"
        THEN Get(cfm, "field_mappings", EmptyList).xs
        ELSE <<>>

\* C5: a field-mapping record whose processing_type is not a member of the
\* enumeration (missing and null included) is stored with the tag DIRECT and
\* dumped as the string "DIRECT"; merging the same results a second time
\* leaves the stored field mappings unchanged.
DirectFallbackIdempotent ==
    /\ (merges = 1 /\ ~merge_raised) =>
          /\ Len(fsd_document.field_mappings) = Len(SourceMappings)
          /\ \A i \in 1..Len(SourceMappings) :
                ~IsProcessingType(Get(SourceMappings[i], "processing_type", Absent)) =>
                    /\ fsd_document.field_mappings[i].processing_type = EnumMember("DIRECT")
                    /\ DataclassToDict(fsd_document).field_mappings[i].processing_type
                          = JStr("DIRECT")
    /\ (merges = 2 /\ ~MapFixedResultsToFsd(MergeStart, results).raised) =>
          fsd_document.field_mappings
              = MapFixedResultsToFsd(MergeStart, results).doc.field_mappings

\* The path of the input list that names no file.
MissingFile == "up/missing.html"

\* C11: process_file on a path to a non-existent HTML file raises before any
\* remote call is issued, before a remote session is opened and before any
\* output file is written.
MissingFileRaisesFirst ==
    (idx <= Len(html_files) /\ html_files[idx] = MissingFile /\ pc # "loop") =>
        /\ pc = "except"
        /\ raised_at = "exists"
        /\ call_log = <<>>
        /\ in_flight = {}
        /\ opens = 0
        /\ session = "none"
        /\ written = {}
        /\ output_files = {}

\* process_file has raised FileNotFoundError for the missing path.
MissingFileRaisesFirstWitness ==
    /\ pc = "except"
    /\ html_files[idx] = MissingFile
    /\ pending_error = "HTML file not found: up/missing.html"
    /\ opens = 0
    /\ written = {}

(***************************************************************************)
(* Rendering and re-parsing.  A third specification over the same           *)
(* variables: the state starts with a merged document, a reference table    *)
(* and an environment for the polishing call; _generate_markdown renders    *)
(* the document and MarkdownParser.parse reads the text back line by line.  *)
(***************************************************************************)
MaxParams == 2

\* A document with every task answered, and a row for the T500C form.
FilledDoc(f) ==
    LET doc == MapFixedResultsToFsd(
                   [MapperInit EXCEPT !.document_location = JStr(Basename(f))],
                   [task \in TaskSet |-> GoodDoc(task, f, JStr("LOOKUP"))]).doc
    IN  [doc EXCEPT !.currency_t500c = doc.country_info]

RecordLists ==
    {"selection_parameters", "field_mappings", "valid_dataset_rules", "country_info",
     "currency_t500c", "currency_t001", "error_scenarios", "test_scenarios"}

\* The document with only the record lists of `shown` filled.
OnlyShown(doc, shown) ==
    [fld \in DOMAIN doc |-> IF fld \in RecordLists \ shown THEN <<>> ELSE doc[fld]]

\* All lists, all but one, one, none.
ShownSets ==
    {RecordLists, {}} \cup {{fld} : fld \in RecordLists} \cup {RecordLists \ {fld} : fld \in RecordLists}

SectionDocs ==
    { [OnlyShown(FilledDoc(MergeFile), shown) EXCEPT
          !.program_name = name, !.report_description = description] :
      shown \in ShownSets,
      name \in {JStr(""), JStr("ZHR_A")},
      description \in {JStr(""), JStr("Report A")} }

\* related_documents: none, one file's id, two files' ids (a batch merges
\* every file into one document), a plain entry before an id.
RelatedInputs ==
    { <<>>,
      <<JStr("RICEFW ID: RHR00A")>>,
      <<JStr("RICEFW ID: RHR00A"), JStr("RICEFW ID: RHR00B")>>,
      <<JStr("RICEFW ID: RHR00B"), JStr("RICEFW ID: RHR00A")>>,
      <<JStr("see design note"), JStr("RICEFW ID: RHR00B")>> }

\* user_requirements and assumptions as an answer may carry them.
BasicInputs ==
    { <<JStr("Requirement A"), JList(<<JStr("Assume A")>>)>>,
      <<JStr(""), EmptyList>>,
      <<JNull, EmptyList>>,
      <<JList(<<JStr("r1")>>), EmptyList>>,
      <<JStr("Requirement A"), JNull>> }

LookupDocs ==
    { [OnlyShown(FilledDoc(MergeFile), shown) EXCEPT
          !.related_documents = related,
          !.desain_report_description = desain,
          !.user_requirements = basic[1],
          !.assumptions = basic[2]] :
      shown \in {{}, {"selection_parameters", "field_mappings"}},
      related \in RelatedInputs,
      desain \in {JStr(""), JStr("Explicit design")},
      basic \in BasicInputs }

\* Selection parameters as the merge stores them: flags as the answer gave them.
ParamInputs ==
    { SelectionParameter(SelectionParameterDoc(MergeFile)),
      SelectionParameter(MapOf({ <<"name", JStr("S_PERNR")>>, <<"type", JStr("PERNR")>>,
                                 <<"is_select_option", JBool(TRUE)>>,
                                 <<"has_no_intervals", JBool(TRUE)>> })),
      SelectionParameter(MapOf({ <<"name", JStr("P_TEST")>>, <<"type", JStr("XFELD")>>,
                                 <<"is_mandatory", JStr("false")>>,
                                 <<"is_select_option", JNull>> })),
      SelectionParameter(MapOf({ <<"name", JStr("P_DATE")>>, <<"type", JStr("DATS")>>,
                                 <<"description", JStr("Parameter tanggal")>> })) }

RECURSIVE SeqsUpTo(_, _)
SeqsUpTo(S, n) ==
    IF n = 0 THEN {<<>>}
    ELSE SeqsUpTo(S, n - 1) \cup {Append(q, x) : q \in SeqsUpTo(S, n - 1), x \in S}

ParamDocs ==
    { [OnlyShown(FilledDoc(MergeFile), {}) EXCEPT !.selection_parameters = params] :
      params \in SeqsUpTo(ParamInputs, MaxParams) \ {<<>>} }

\* The reference table: missing, not a workbook, without the two columns, or
\* a sheet of rows (id, Assign Nodin, Requirement Description).
RowA ==
    [id |-> <<"RHR00A", " ">>, nodin |-> Cell(<<" ", "Laporan A">>), desc |-> Cell(<<"Deskripsi A">>)]
RowB == [id |-> <<"RHR00B">>, nodin |-> Cell(<<"Laporan B">>), desc |-> Cell(<<"Deskripsi B">>)]
RowEmptyCells == [id |-> <<"RHR00A">>, nodin |-> JNull, desc |-> Cell(<<" ">>)]

ExcelStates ==
    { NoTable, [kind |-> "unreadable"], [kind |-> "no columns"] }
    \cup { [kind |-> "table", rows |-> rows] :
            rows \in {<<>>, <<RowA>>, <<RowB>>, <<RowA, RowB>>, <<RowEmptyCells, RowB>>} }

\* The environments of a rendering.
RenderEnvs ==
    (ExcelStates \X {"loop running"})
    \cup ({NoTable, [kind |-> "table", rows |-> <<RowA, RowB>>]} \X ImproveOutcomes)

InitRender ==
    /\ html_files = <<MergeFile>>
    /\ idx = 1
    /\ pc = "markdown"
    /\ \/ fsd_document \in SectionDocs \cup ParamDocs /\ excel = NoTable /\ improve = "loop running"
       \/ fsd_document \in LookupDocs /\ \E env \in RenderEnvs : excel = env[1] /\ improve = env[2]
    /\ results = <<>>
    /\ task_no = NumTasks + 1
    /\ in_flight = {}
    /\ call_log = <<>>
    /\ response = NoResponse
    /\ failed_calls = {}
    /\ served = <<>>
    /\ session = "closed"
    /\ opens = 1
    /\ closes = 1
    /\ pending_error = ""
    /\ merges = 1
    /\ merge_raised = FALSE
    /\ template_exists = FALSE
    /\ dir_template = FALSE
    /\ written = {}
    /\ output_files = {}
    /\ word_result = "none"
    /\ raised_at = ""
    /\ batch_results = <<>>
    /\ attempts = <<>>
    /\ successful = 0
    /\ failed = 0
    /\ summary = NoSummary
    /\ fail_budget = 0
    /\ bad_budget = 0
    /\ markdown = NoMarkdown
    /\ parser = NoParser
    /\ parsed_data = <<>>
    /\ WordIdle
    /\ ServiceIdle

pipeline_vars ==
    <<html_files, idx, fsd_document, results, task_no, in_flight, call_log, response,
      failed_calls, served, session, opens, closes, pending_error, merges, merge_raised,
      template_exists, dir_template, written, output_files, word_result, raised_at,
      batch_results, attempts, successful, failed, summary, fail_budget, bad_budget>>

\* markdown_content = self._generate_markdown(fsd_document)
RenderMarkdown ==
    /\ pc = "markdown"
    /\ markdown' = GenerateMarkdown(fsd_document, excel, improve)
    /\ pc' = IF MarkdownRaisesAt(fsd_document, excel) # "" THEN "raised" ELSE "rendered"
    /\ UNCHANGED <<pipeline_vars, parser, parsed_data, excel, improve, word_vars, service_vars>>

\* MarkdownParser(markdown_content).parse(), up to the loop.
ParseStart ==
    /\ pc = "rendered"
    /\ parser' = ParserStart(markdown.text)
    /\ pc' = "parsing"
    /\ UNCHANGED <<pipeline_vars, markdown, parsed_data, excel, improve, word_vars, service_vars>>

\* One iteration of `for line in lines`.
ParseStep ==
    /\ pc = "parsing"
    /\ parser.line_no <= Len(parser.lines)
    /\ parser' = [ParseLine(parser, Strip(parser.lines[parser.line_no])) EXCEPT
                    !.line_no = parser.line_no + 1]
    /\ UNCHANGED <<pipeline_vars, pc, markdown, parsed_data, excel, improve, word_vars, service_vars>>

\* The end of parse(): the final save and the return.
ParseFinish ==
    /\ pc = "parsing"
    /\ parser.line_no > Len(parser.lines)
    /\ parsed_data' = ParseReturn(parser)
    /\ pc' = "parsed"
    /\ UNCHANGED <<pipeline_vars, markdown, parser, excel, improve, word_vars, service_vars>>

(***************************************************************************)
(* MarkdownTitleExtractor.extract_title_info, the part that reads the tables *)
(* back: the section flags, the table-row test, the header test, the cells. *)
(***************************************************************************)
SelectionColumns == "Parameter | Type | Description | Mandatory | Select-Option | No Intervals"
FieldColumns == "Field Name | Technical Field | Source Table | Processing Logic | Processing Type"
DataColumns == "Data | Kondisi"
ErrorColumns == "No | Error Description | Resolution | Error Code | Severity"
TestColumns == "No | Test Condition | Expected Result | Test Data | Priority"

\* `word in token` for the words extract_title_info looks for in a table line.
Occurs(word, token) ==
    CASE word = "Parameter" -> token \in {SelectionColumns, "Parameter tanggal"}
      [] word = "Field Name" -> token = FieldColumns
      [] word = "Data" -> token \in {DataColumns, TestColumns}
      [] word = "Error Description" -> token = ErrorColumns
      [] word = "Test Condition" -> token = TestColumns
      [] word = "---" ->
            token \in {"-----------|------|-------------|-----------|---------------|--------------",
                       "------------|-----------------|--------------|------------------|-----------------",
                       "------|---------",
                       "----|-------------------|------------|------------|----------",
                       "----|----------------|-----------------|-----------|----------"}

\* `word in line`
LineHas(line, word) == \E i \in 1..Len(line) : Occurs(word, line[i])

\* Lines 90-144: the section a '## ' line opens, by the first test that matches.
MajorSection(line) ==
    LET title == {line[i] : i \in 4..Len(line)}
    IN  IF title \cap {"1. INFORMASI DOKUMEN", "2. PERSYARATAN UMUM"} # {} THEN "general_requirements"
        ELSE IF "3. EXISTING SAP OBJECTS" \in title THEN "existing_sap_objects"
        ELSE IF "4. DESAIN" \in title THEN "design_section"
        ELSE IF "5. PENANGANAN ERROR" \in title THEN "error_handling"
        ELSE IF "6. PERSYARATAN PENGUJIAN" \in title THEN "testing_requirements"
        ELSE "none"

\* Lines 148-164: the subsection a '### ' line opens inside the design section.
DesignSubsection(line) ==
    LET title == {line[i] : i \in 5..Len(line)}
    IN  IF "4.2 Selection Screen" \in title THEN "selection_screen"
        ELSE IF "4.3 Detail Processing" \in title THEN "detail_processing"
        ELSE IF "4.4 Detail Process Only valid datasets" \in title THEN "valid_datasets"
        ELSE IF "Form Get_Country_Info" \in title THEN "country_info"
        ELSE IF "Form Get_Currency_T500C" \in title THEN "currency_t500c"
        ELSE IF "Form Get_Currency_T001" \in title THEN "currency_t001"
        ELSE "none"

\* line.split('|')
RECURSIVE SplitCells(_)
SplitCells(line) ==
    IF \A i \in 1..Len(line) : line[i] # "|" THEN <<line>>
    ELSE LET i == CHOOSE k \in 1..Len(line) : line[k] = "|" /\ \A j \in 1..(k - 1) : line[j] # "|"
         IN  <<SubSeq(line, 1, i - 1)>> \o SplitCells(SubSeq(line, i + 1, Len(line)))

\* [cell.strip() for cell in line.split('|')[1:-1]]
CellsOf(line) ==
    LET parts == SplitCells(line)
    IN  [i \in 1..(Len(parts) - 2) |-> Strip(parts[i + 1])]

TableKeys ==
    {"selection_screen_table", "detail_processing_table", "valid_datasets_table",
     "country_info_table", "currency_t500c_table", "currency_t001_table",
     "error_handling_table", "testing_requirements_table"}

\* The table, header word, least number of cells and record keys of a table line.
RowKind(section, subsection) ==
    CASE section = "design_section" /\ subsection = "selection_screen" ->
            [table |-> "selection_screen_table", header |-> "Parameter",
             keys |-> <<"parameter", "type", "description", "mandatory", "select_option",
                        "no_intervals">>]
      [] section = "design_section" /\ subsection = "detail_processing" ->
            [table |-> "detail_processing_table", header |-> "Field Name",
             keys |-> <<"field_name", "technical_field", "source_table", "processing_logic",
                        "processing_type">>]
      [] section = "design_section"
           /\ subsection \in {"valid_datasets", "country_info", "currency_t500c", "currency_t001"} ->
            [table |-> subsection \o "_table", header |-> "Data", keys |-> <<"data", "condition">>]
      [] section = "error_handling" ->
            [table |-> "error_handling_table", header |-> "Error Description",
             keys |-> <<"no", "error_description", "resolution", "error_code", "severity">>]
      [] section = "testing_requirements" ->
            [table |-> "testing_requirements_table", header |-> "Test Condition",
             keys |-> <<"no", "test_condition", "expected_result", "test_data", "priority">>]
      [] OTHER -> [table |-> "none", header |-> "", keys |-> <<>>]

\* The record of a table line: the first cells under the table's keys.
RowRecord(keys, cells) ==
    [k \in {keys[i] : i \in 1..Len(keys)} |-> cells[CHOOSE i \in 1..Len(keys) : keys[i] = k]]

\* The locals of extract_title_info before its loop (lines 27-84).
ExtractStart(text) ==
    [lines |-> SplitLines(text), line_no |-> 1, section |-> "none", subsection |-> "none",
     tables |-> [k \in TableKeys |-> <<>>]]

\* One iteration of the loop of lines 86-334 over a stripped line.
ExtractLine(st, line) ==
    IF StartsWith(line, <<"#", "#", " ">>)
    THEN [st EXCEPT !.section = MajorSection(line)]
    ELSE IF st.section = "design_section" /\ StartsWith(line, <<"#", "#", "#", " ">>)
    THEN [st EXCEPT !.subsection = DesignSubsection(line)]
    ELSE LET kind == RowKind(st.section, st.subsection)
         IN  IF /\ kind.table # "none"
                /\ StartsWith(line, <<"|">>)
                /\ ~LineHas(line, "---")
                /\ ~LineHas(line, kind.header)
                /\ Len(CellsOf(line)) >= Len(kind.keys)
             THEN [st EXCEPT !.tables[kind.table] =
                                 Append(st.tables[kind.table], RowRecord(kind.keys, CellsOf(line)))]
             ELSE st

extract_frame ==
    <<pipeline_vars, markdown, parser, parsed_data, excel, improve,
      docx, fault, steps, template, saved_doc, run, service_vars>>

\* extractor = MarkdownTitleExtractor(markdown_content); extractor.extract_title_info(),
\* up to the loop.
ExtractTitleInfo ==
    /\ pc = "rendered"
    /\ title_info' = ExtractStart(markdown.text)
    /\ pc' = "extracting"
    /\ UNCHANGED extract_frame

\* One iteration of `for i, line in enumerate(lines)`.
ExtractStep ==
    /\ pc = "extracting"
    /\ title_info.line_no <= Len(title_info.lines)
    /\ title_info' = [ExtractLine(title_info, Strip(title_info.lines[title_info.line_no])) EXCEPT
                        !.line_no = title_info.line_no + 1]
    /\ UNCHANGED <<pc, extract_frame>>

\* return title_info
ExtractReturn ==
    /\ pc = "extracting"
    /\ title_info.line_no > Len(title_info.lines)
    /\ title_info' = title_info.tables
    /\ pc' = "extracted"
    /\ UNCHANGED extract_frame

NextRender ==
    \/ RenderMarkdown \/ ParseStart \/ ParseStep \/ ParseFinish
    \/ ExtractTitleInfo \/ ExtractStep \/ ExtractReturn

SpecRender == InitRender /\ [][NextRender]_vars

\* The lines of the rendered Markdown text.
MarkdownLines == SplitLines(markdown.text)

\* The heading the specification gives each record list.
HeadingOf(fld) ==
    CASE fld = "selection_parameters" -> <<"#", "#", "#", " ", "4.2 Selection Screen">>
      [] fld = "field_mappings" -> <<"#", "#", "#", " ", "4.3 Detail Processing">>
      [] fld = "valid_dataset_rules" ->
            <<"#", "#", "#", " ", "4.4 Detail Process Only valid datasets">>
      [] fld = "country_info" -> <<"#", "#", "#", " ", "Form Get_Country_Info">>
      [] fld = "currency_t500c" -> <<"#", "#", "#", " ", "Form Get_Currency_T500C">>
      [] fld = "currency_t001" -> <<"#", "#", "#", " ", "Form Get_Currency_T001">>
      [] fld = "error_scenarios" -> <<"#", "#", " ", "5. PENANGANAN ERROR">>
      [] fld = "test_scenarios" -> <<"#", "#", " ", "6. PERSYARATAN PENGUJIAN">>

\* A table's separator line: a bar, the dashes, a bar.
IsSeparator(line) == Len(line) = 3 /\ line[1] = "|" /\ line[3] = "|"

\* The line is one of the lines.
HasLine(lines, line) == \E i \in 1..Len(lines) : lines[i] = line

\* C12: in the rendered Markdown, each record list's heading appears exactly
\* when the list is non-empty, and every table's header and separator are
\* followed by at least one data row.
HeadingIffNonEmpty ==
    pc = "rendered" =>
        LET lines == MarkdownLines
        IN  /\ \A fld \in RecordLists :
                  HasLine(lines, HeadingOf(fld)) <=> fsd_document[fld] # <<>>
            /\ \A i \in 1..Len(lines) :
                  IsSeparator(lines[i]) =>
                      /\ i < Len(lines)
                      /\ StartsWith(lines[i + 1], <<"|", " ">>)
                      /\ ~IsSeparator(lines[i + 1])

HeadingIffNonEmptyWitness ==
    /\ pc = "rendered"
    /\ fsd_document.selection_parameters = <<>>
    /\ fsd_document.error_scenarios # <<>>
    /\ HasLine(MarkdownLines, HeadingOf("error_scenarios"))
    /\ ~HasLine(MarkdownLines, HeadingOf("selection_parameters"))

\* md_lines as _generate_markdown built them for the state's document.
EmittedLines == MdLines(fsd_document, excel, improve)

\* The lines the renderer emitted from its '## ...' and '### ...' templates.
IsEmittedHeading(line, level) ==
    IF level = 2 THEN StartsWith(line, <<"#", "#", " ">>)
    ELSE StartsWith(line, <<"#", "#", "#", " ">>)

EmittedTitle(line, level) == Strip(SubSeq(line, level + 2, Len(line)))

IsAnyHeading(line) == IsEmittedHeading(line, 2) \/ IsEmittedHeading(line, 3)

\* A heading has content: a line that is neither blank nor a heading follows
\* it before the next heading.
HasContent(i) ==
    \E j \in (i + 1)..Len(EmittedLines) :
        /\ Strip(EmittedLines[j]) # <<>>
        /\ \A k \in (i + 1)..j : ~IsAnyHeading(EmittedLines[k])

\* The level-2 heading a line belongs to (0 before the first).
SectionIndex(i) ==
    IF \E k \in 1..i : IsEmittedHeading(EmittedLines[k], 2)
    THEN CHOOSE k \in 1..i :
            /\ IsEmittedHeading(EmittedLines[k], 2)
            /\ \A m \in (k + 1)..i : ~IsEmittedHeading(EmittedLines[m], 2)
    ELSE 0

EmittedSubsections ==
    { <<EmittedTitle(EmittedLines[SectionIndex(j)], 2), EmittedTitle(EmittedLines[j], 3)>> :
        j \in {i \in 1..Len(EmittedLines) :
                  IsEmittedHeading(EmittedLines[i], 3) /\ HasContent(i) /\ SectionIndex(i) > 0} }

EmittedSections ==
    { EmittedTitle(EmittedLines[i], 2) :
        i \in {k \in 1..Len(EmittedLines) :
                  /\ IsEmittedHeading(EmittedLines[k], 2)
                  /\ \/ HasContent(k)
                     \/ \E j \in (k + 1)..Len(EmittedLines) :
                           /\ IsEmittedHeading(EmittedLines[j], 3)
                           /\ SectionIndex(j) = k
                           /\ HasContent(j)} }

RecoveredSections == DOMAIN parsed_data.sections

RecoveredSubsections ==
    UNION { { <<section, subsection>> :
                subsection \in DOMAIN parsed_data.sections[section].subsections } :
            section \in DOMAIN parsed_data.sections }

\* C13: the level-2 and level-3 headings _generate_markdown emits with
\* non-empty content are exactly the section and subsection keys
\* MarkdownParser.parse recovers from the text, whatever the field values.
SectionsRoundTrip ==
    pc = "parsed" =>
        /\ RecoveredSections = EmittedSections
        /\ RecoveredSubsections = EmittedSubsections

\* The Program Name line with this value.
ProgramLine(value) == <<"- **Program Name**:", " ">> \o Fmt(value)

\* C14: for every entry 'RICEFW ID: X' of related_documents, the Program Name
\* line of the rendered text shows the alias the reference table gives X, and
\* the original program_name if the table is missing, unreadable, lacks the
\* columns or has no alias for X.
ProgramNameAlias ==
    pc = "rendered" =>
        LET lines == MarkdownLines
        IN  \A i \in 1..Len(fsd_document.related_documents) :
                IsRicefwEntry(fsd_document.related_documents[i]) =>
                    IF Truthy(LookupAssignNodin(excel, RicefwIdOf(fsd_document.related_documents[i])))
                    THEN HasLine(lines, ProgramLine(
                             LookupAssignNodin(excel, RicefwIdOf(fsd_document.related_documents[i]))))
                    ELSE HasLine(lines, ProgramLine(fsd_document.program_name))

\* 'Yes' when the flag is true, 'No' otherwise.
FlagWord(flag) == IF flag = JBool(TRUE) THEN <<"Yes">> ELSE <<"No">>

\* '| name | type | description | M | S | N |'
SelectionRowOf(param) ==
    <<"|", " ">> \o Fmt(param.name) \o <<" ", "|", " ">> \o Fmt(param.type)
        \o <<" ", "|", " ">> \o Fmt(param.description)
        \o <<" ", "|", " ">> \o FlagWord(param.is_mandatory)
        \o <<" ", "|", " ">> \o FlagWord(param.is_select_option)
        \o <<" ", "|", " ">> \o FlagWord(param.has_no_intervals) \o <<" ", "|">>

\* The index of a line that is among the lines.
LineAt(lines, line) == CHOOSE i \in 1..Len(lines) : lines[i] = line

\* C15: for a non-empty list of selection parameters, the table under
\* '4.2 Selection Screen' has exactly one data row per parameter, in list
\* order, '| name | type | description | M | S | N |' with 'Yes' for a flag
\* that is true and 'No' otherwise.
SelectionRowsMatch ==
    (pc = "rendered" /\ fsd_document.selection_parameters # <<>>) =>
        LET lines == MarkdownLines
            heading == LineAt(lines, HeadingOf("selection_parameters"))
        IN  /\ \A k \in 1..Len(fsd_document.selection_parameters) :
                  lines[heading + 3 + k] = SelectionRowOf(fsd_document.selection_parameters[k])
            /\ ~StartsWith(lines[heading + 4 + Len(fsd_document.selection_parameters)], <<"|">>)

\* The requirement text of the fallback: the table's description of the first
\* RICEFW entry if it has one, else user_requirements.
FallbackRequirement ==
    IF Truthy(LookedUp(fsd_document, excel, "desc", JNull))
    THEN LookedUp(fsd_document, excel, "desc", JNull)
    ELSE fsd_document.user_requirements

\* The composed fallback: requirement text, then the two count sentences.
ComposedFallback ==
    JoinWith(" ",
        IF /\ ~Truthy(FallbackRequirement)
           /\ fsd_document.selection_parameters = <<>>
           /\ fsd_document.field_mappings = <<>>
        THEN << <<"Report ini dirancang untuk memenuhi kebutuhan bisnis yang telah ditentukan.">> >>
        ELSE (IF Truthy(FallbackRequirement) THEN <<Fmt(FallbackRequirement)>> ELSE <<>>)
             \o (IF fsd_document.selection_parameters # <<>>
                 THEN << <<"Report ini memiliki "
                            \o ToString(Len(fsd_document.selection_parameters))
                            \o " parameter selection screen.">> >>
                 ELSE <<>>)
             \o (IF fsd_document.field_mappings # <<>>
                 THEN << <<"Proses detail mencakup "
                            \o ToString(Len(fsd_document.field_mappings)) \o " field utama.">> >>
                 ELSE <<>>))

\* The document has no explicit design description and the run gets as far as
\* the polishing call: the assumptions can be iterated and the requirement
\* text, if any, is a string.
PolishingCalled ==
    /\ ~Truthy(fsd_document.desain_report_description)
    /\ fsd_document.assumptions.t \in {"list", "str", "map"}
    /\ Truthy(FallbackRequirement) => FallbackRequirement.t = "str"

\* The text under the '4.1' heading of the rendered Markdown.
DescriptionRendered ==
    LET lines == MarkdownLines
    IN  lines[LineAt(lines, <<"#", "#", "#", " ", "4.1 Description detail dari Report">>) + 2]

Paragraph(style, text) ==
    [kind |-> "p", style |-> style, text |-> text, bold |-> FALSE,
     origin |-> "template", cells |-> <<>>]

TableOf(origin, cells) ==
    [kind |-> "tbl", style |-> "", text |-> <<>>, bold |-> FALSE,
     origin |-> origin, cells |-> cells]

LongText == "Bagian ini menjelaskan kebutuhan functional dari laporan yang dibuat"

\* generate_testing_requirements_content_text (line 828).
TestingContent ==
    "Pengujian harus dilakukan pada environment development dengan data representatif yang mencakup berbagai skenario bisnis."

\* len() of a phrase.
PhraseLen(phrase) ==
    CASE phrase = "Selection Screen" -> 16
      [] phrase = "4.2" -> 3
      [] phrase = " " -> 1
      [] phrase = "{{potensi_error}}" -> 17
      [] phrase = "KONDISI PENGUJIAN" -> 17
      [] phrase = "Skenario Functional Testing" -> 27
      [] phrase = LongText -> 68
      [] phrase = "{{nama_program_sap}}" -> 20
      [] phrase = "{{persyaratan_pengujian}}" -> 25
      [] phrase = "RHR041 Travel Requisition Process" -> 33
      [] phrase = "(Nama File)" -> 11
      [] phrase = "Selection Screen:" -> 17
      [] phrase = "Detail Processing:" -> 18
      [] phrase = "Detail Process Only valid datasets:" -> 35
      [] phrase = "Form Get_Country_Info:" -> 22
      [] phrase = "Form Get_Currency_T500C:" -> 24
      [] phrase = "Form Get_Currency_T001:" -> 23
      [] phrase = "Potensi Error:" -> 14
      [] phrase = "ZHR_A" -> 5
      [] phrase = "RHR00A" -> 6
      [] phrase = "Laporan A" -> 9
      [] phrase = TestingContent -> 120
      [] phrase = ": " -> 2
      [] phrase = " items" -> 6
      [] phrase = "Table with " -> 11
      [] phrase = " rows" -> 5
      [] OTHER -> 1

\* The strings searched for by the filler that occur in a phrase.
Within(phrase) ==
    CASE phrase = "Selection Screen" -> {"Selection Screen"}
      [] phrase = "{{potensi_error}}" -> {"{{potensi_error}}"}
      [] phrase = "KONDISI PENGUJIAN" -> {"KONDISI PENGUJIAN"}
      [] phrase = "{{nama_program_sap}}" -> {"{{nama_program_sap}}"}
      [] phrase = "{{persyaratan_pengujian}}" -> {"{{persyaratan_pengujian}}"}
      [] phrase = "(Nama File)" -> {"(Nama File)"}
      [] phrase = "Selection Screen:" -> {"Selection Screen"}
      [] phrase = "Detail Processing:" -> {"Detail Processing"}
      [] phrase = "Detail Process Only valid datasets:" -> {"Detail Process Only valid datasets"}
      [] phrase = "Form Get_Country_Info:" -> {"Form Get_Country_Info"}
      [] phrase = "Form Get_Currency_T500C:" -> {"Form Get_Currency_T500C"}
      [] phrase = "Form Get_Currency_T001:" -> {"Form Get_Currency_T001"}
      [] OTHER -> {}

\* The lower-case keywords of the cleanup passes that occur in phrase.lower().
WithinLower(phrase) ==
    CASE phrase = "Skenario Functional Testing" -> {"skenario", "functional"}
      [] phrase = LongText -> {"functional"}
      [] phrase = TestingContent -> {"skenario"}
      [] OTHER -> {}

\* pattern in text
Contains(text, pattern) == \E i \in DOMAIN text : pattern \in Within(text[i])

\* keyword in text.lower()
ContainsLower(text, keyword) == \E i \in DOMAIN text : keyword \in WithinLower(text[i])

RECURSIVE TextLen(_)
\* len(text)
TextLen(text) ==
    IF text = <<>> THEN 0 ELSE PhraseLen(Head(text)) + TextLen(Tail(text))

RECURSIVE ReplaceText(_, _, _)
\* text.replace(old_text, new_text), for an old_text that is a whole phrase.
ReplaceText(text, old_text, new_text) ==
    IF text = <<>> THEN <<>>
    ELSE (IF Head(text) = old_text THEN new_text ELSE <<Head(text)>>)
             \o ReplaceText(Tail(text), old_text, new_text)

\* doc.paragraphs: the positions of the body paragraphs, in document order.
Paragraphs(body) ==
    SelectSeq([i \in 1..Len(body) |-> i], LAMBDA i : body[i].kind = "p")

\* paragraph.clear(), then the bold title run if a title is given (lines 905-911).
ClearedWithTitle(paragraph, title) ==
    [paragraph EXCEPT !.text = IF title # "" THEN <<title>> ELSE <<>>,
                      !.bold = title # ""]

\* WordTableManager.create_bordered_table: None without data or headers, else
\* a table with the header row and one row per data row.
CreateBorderedTable(data, headers) ==
    IF data = <<>> \/ headers = <<>> THEN TableOf("none", <<>>)
    ELSE TableOf("generated", <<headers>> \o data)

\* What doc.add_table has appended when table.style = 'Table Grid' raises
\* (lines 549-550): a table of one row without text.
UnstyledTable == TableOf("generated", <<<<>>>>)

\* A faulty variant of the insertion: the table stays at the end of the body,
\* where doc.add_table put it.
InsertAtEnd(body, i, element) == Append(body, element)

\* body with element placed right after position i (addnext, line 917).
InsertAfter(body, i, element) ==
    SubSeq(body, 1, i) \o <<element>> \o SubSeq(body, i + 1, Len(body))

\* f"{title}: {len(table_data)} items" or f"Table with {len(table_data)} rows"
\* (line 933).
SummaryText(title, table_data) ==
    IF title # "" THEN <<title, ": ", ToString(Len(table_data)), " items">>
    ELSE <<"Table with ", ToString(Len(table_data)), " rows">>

\* Lines 927-938: every cell paragraph of every table that contains the search
\* text is cleared and given the summary text.
ReplaceInCells(body, search_text, table_data, title) ==
    [i \in 1..Len(body) |->
        IF body[i].kind = "tbl"
        THEN [body[i] EXCEPT !.cells =
                 [c \in 1..Len(@) |->
                     IF Contains(body[i].cells[c], search_text)
                     THEN SummaryText(title, table_data) ELSE body[i].cells[c]]]
        ELSE body[i]]

AnyCellContains(body, search_text) ==
    \E i \in 1..Len(body) : /\ body[i].kind = "tbl"
                            /\ \E c \in 1..Len(body[i].cells) :
                                   Contains(body[i].cells[c], search_text)

RECURSIVE ScanParagraphs(_, _, _, _, _, _, _)
\* The loop of lines 899-921 from body position i on: the first paragraph that
\* contains the search text is cleared and titled, the table is created and
\* moved behind it, and the loop is left.  Without a table (no data or no
\* headers) the loop goes on; when create_bordered_table raises, the exception
\* leaves the loop with the paragraph cleared and the new table at the end.
ScanParagraphs(body, i, search_text, table_data, headers, title, style_missing) ==
    IF i > Len(body) THEN [body |-> body, inserted |-> FALSE, raised |-> FALSE]
    ELSE IF body[i].kind = "p" /\ Contains(body[i].text, search_text)
    THEN LET cleared == [body EXCEPT ![i] = ClearedWithTitle(@, title)]
             table == CreateBorderedTable(table_data, headers)
         IN  IF table.origin = "none"
             THEN ScanParagraphs(cleared, i + 1, search_text, table_data, headers, title,
                                 style_missing)
             ELSE IF style_missing
             THEN [body |-> Append(cleared, UnstyledTable), inserted |-> FALSE,
                   raised |-> TRUE]
             ELSE [body |-> InsertAfter(cleared, i, table), inserted |-> TRUE,
                   raised |-> FALSE]
    ELSE ScanParagraphs(body, i + 1, search_text, table_data, headers, title,
                        style_missing)

\* TitlePageWordGenerator.find_and_insert_table_after_text: the body scan, then
\* (nothing inserted) the scan of the table cells; an exception is caught and
\* False returned (lines 942-944).
FindAndInsertTableAfterText(body, search_text, table_data, headers, title, style_missing) ==
    LET scan == ScanParagraphs(body, 1, search_text, table_data, headers, title,
                               style_missing)
    IN  IF scan.raised THEN [body |-> scan.body, inserted |-> FALSE]
        ELSE IF scan.inserted THEN [body |-> scan.body, inserted |-> TRUE]
        ELSE [body |-> ReplaceInCells(scan.body, search_text, table_data, title),
              inserted |-> AnyCellContains(scan.body, search_text)]

\* search_patterns of find_and_replace_testing_section (lines 952-960).
SearchPatterns ==
    <<"{{persyaratan_pengujian}}", "Persyaratan pengujian yang harus dipenuhi:",
      "Prioritas Tinggi:",
      "[*Masukkan kondisi fungsional yang diperlukan untuk pengujian.*]",
      "**KONDISI PENGUJIAN**", "KONDISI PENGUJIAN",
      "Persyaratan pengujian mencakup skenario">>

\* cleanup_patterns of _cleanup_testing_paragraphs_aggressive (lines 993-1015).
CleanupPatterns ==
    {"Prioritas Tinggi:", "Prioritas Menengah:", "Prioritas Rendah:",
     "User has authorization", "User does not have authorization",
     "Process RHR006_01", "Selection option s_lgart", "Infotype 0015",
     "Large dataset", "Employee has IT0015 record", "[*Masukkan kondisi fungsional",
     "**KONDISI PENGUJIAN**", "**HASIL YANG DIHARAPKAN**",
     "Persyaratan pengujian mencakup skenario", "skenario prioritas tinggi",
     "skenario prioritas menengah", "skenario prioritas rendah",
     "Detail kondisi pengujian tercantum", "authorization, security",
     "functional testing", "performance, edge cases"}

\* Line 1033: the keywords of a "priority breakdown".
BreakdownWords == {"prioritas", "skenario", "authorization", "functional"}

\* Lines 1025-1035: whether the aggressive cleanup marks a paragraph.
MarkedAggressively(paragraph) ==
    LET paragraph_text == Strip(paragraph.text)
    IN  \/ \E pattern \in CleanupPatterns : Contains(paragraph_text, pattern)
        \/ /\ TextLen(paragraph_text) > 50
           /\ \E word \in BreakdownWords : ContainsLower(paragraph_text, word)

Cleared(paragraph) == [paragraph EXCEPT !.text = <<>>, !.bold = FALSE]

\* Line 1020: range(max(0, start_index - 5), min(start_index + 30, len)), as
\* 1-based ranks in doc.paragraphs for the 1-based rank start_index.
CleanupWindow(count, start_index) ==
    { n \in 1..count : n >= start_index - 5 /\ n <= start_index + 29 }

\* TitlePageWordGenerator._cleanup_testing_paragraphs_aggressive: every marked
\* paragraph of the window is cleared, whatever its style.
CleanupTestingParagraphsAggressive(body, start_index) ==
    LET ps == Paragraphs(body)
        window == { ps[n] : n \in CleanupWindow(Len(ps), start_index) }
    IN  [i \in 1..Len(body) |->
            IF i \in window /\ MarkedAggressively(body[i]) THEN Cleared(body[i])
            ELSE body[i]]

\* TitlePageWordGenerator.find_and_replace_testing_section: the first paragraph
\* that contains the first pattern found anywhere is cleared, the table follows
\* it, and the paragraphs around it are cleaned up.
FindAndReplaceTestingSection(body, testing_data, testing_headers, style_missing) ==
    LET ps == Paragraphs(body)
        found == { k \in DOMAIN SearchPatterns :
                     \E n \in DOMAIN ps : Contains(body[ps[n]].text, SearchPatterns[k]) }
    IN  IF found = {} THEN [body |-> body, inserted |-> FALSE]
        ELSE LET k == CHOOSE x \in found : \A y \in found : x <= y
                 hits == { n \in DOMAIN ps : Contains(body[ps[n]].text, SearchPatterns[k]) }
                 n == CHOOSE x \in hits : \A y \in hits : x <= y
                 cleared == [body EXCEPT ![ps[n]] = Cleared(@)]
             IN  IF style_missing
                 THEN [body |-> Append(cleared, UnstyledTable), inserted |-> FALSE]
                 ELSE [body |-> CleanupTestingParagraphsAggressive(
                                    InsertAfter(cleared, ps[n],
                                        CreateBorderedTable(testing_data, testing_headers)),
                                    n),
                       inserted |-> TRUE]

\* placeholders_to_remove of the final cleanup (lines 1303-1318).
PlaceholdersToRemove ==
    <<"{{detail_processing}}", "{{kondisi_pengujian_tabel}}", "{{potensi_error}}",
      "Prioritas Tinggi: - User has authorization",
      "Prioritas Menengah: - Process RHR006",
      "Prioritas Rendah: - Employee has IT0015",
      "**KONDISI PENGUJIAN**", "**HASIL YANG DIHARAPKAN**",
      "Persyaratan pengujian mencakup skenario berikut:",
      "Detail kondisi pengujian tercantum dalam tabel di bawah ini.",
      "skenario prioritas tinggi (authorization, security)",
      "skenario prioritas menengah (functional testing)",
      "skenario prioritas rendah (performance, edge cases)",
      "[*Masukkan kondisi fungsional yang diperlukan untuk pengujian.*]">>

RECURSIVE ScanPlaceholders(_, _)
\* The loop of lines 1324-1332 from placeholder k on, for the paragraph text:
\* the text it leaves and whether the paragraph is to be cleared.
ScanPlaceholders(text, k) ==
    IF k > Len(PlaceholdersToRemove) THEN [text |-> text, should_clear |-> FALSE]
    ELSE IF Contains(text, PlaceholdersToRemove[k])
    THEN IF TextLen(Strip(text)) <= PhraseLen(PlaceholdersToRemove[k]) + 50
         THEN [text |-> text, should_clear |-> TRUE]
         ELSE ScanPlaceholders(Strip(ReplaceText(text, PlaceholdersToRemove[k], <<>>)),
                               k + 1)
    ELSE ScanPlaceholders(text, k + 1)

\* Lines 1335-1340: a short paragraph that names a priority or scenario and a
\* kind of test.
IsRedundantTesting(text) ==
    /\ Strip(text) # <<>>
    /\ TextLen(Strip(text)) < 200
    /\ \E phrase \in {"prioritas tinggi", "prioritas menengah", "prioritas rendah",
                      "skenario"} : ContainsLower(text, phrase)
    /\ \E phrase \in {"authorization", "functional", "performance"} :
           ContainsLower(text, phrase)

\* Lines 1320-1344 for one paragraph of doc.paragraphs.
FinalCleanupParagraph(paragraph) ==
    LET scan == ScanPlaceholders(paragraph.text, 1)
    IN  IF scan.should_clear \/ IsRedundantTesting(scan.text) THEN Cleared(paragraph)
        ELSE IF scan.text # paragraph.text
        THEN [paragraph EXCEPT !.text = scan.text, !.bold = FALSE]
        ELSE paragraph

\* The final cleanup (lines 1320-1344): every body paragraph, whatever its
\* style; the paragraphs of table cells are not in doc.paragraphs.
FinalCleanup(body) ==
    [i \in 1..Len(body) |->
        IF body[i].kind = "p" THEN FinalCleanupParagraph(body[i]) ELSE body[i]]

(***************************************************************************)
(* SpecWord: generate_with_proper_tables on a template of at most MaxBody    *)
(* body elements.  The fault is where python-docx raises during the run:    *)
(* "replace" in replace_text_preserve_formatting, "style" at table.style =  *)
(* 'Table Grid' of create_bordered_table (the template lacks the style),    *)
(* "save" in doc.save.                                                      *)
(***************************************************************************)
MaxBody == 2

\* The number of runs on the same template and title_info.
MaxRuns == 2

Faults == {"none", "replace", "style", "save"}

\* The elements templates are made of.
TemplateElements ==
    { Paragraph("flat", <<"Selection Screen">>),
      Paragraph("heading", <<"4.2", " ", "Selection Screen">>),
      Paragraph("flat", <<"{{potensi_error}}">>),
      Paragraph("flat", <<"KONDISI PENGUJIAN">>),
      Paragraph("heading", <<"Skenario Functional Testing">>),
      Paragraph("flat", <<LongText>>),
      Paragraph("flat", <<"{{nama_program_sap}}">>),
      Paragraph("flat", <<"{{persyaratan_pengujian}}">>),
      Paragraph("heading", <<"RHR041 Travel Requisition Process", " ", "(Nama File)">>),
      TableOf("template", << <<"Selection Screen">> >>),
      TableOf("template", << <<"{{potensi_error}}">>, <<"ZHR_A">> >>) }

Templates == SeqsUpTo(TemplateElements, MaxBody) \ {<<>>}

\* The title_info values: the number of rows of each table list.
TitleInfos ==
    [ricefw_id : {"RHR00A"}, file_name : {"Laporan A"}, sap_program_name : {"ZHR_A"},
     selection_screen_table : {0, 2}, detail_processing_table : {0},
     valid_datasets_table : {0}, country_info_table : {0},
     currency_t500c_table : {0}, currency_t001_table : {0},
     error_handling_table : {0, 2}, testing_requirements_table : {0, 2}]

\* The data rows a create_*_table_data function returns for n entries.
Rows(n) == [i \in 1..n |-> <<"row">>]

\* The table steps of lines 1193-1259, in order: the title_info key, the anchor
\* text, the title and the header row.
TableSteps ==
    << [key |-> "selection_screen_table", anchor |-> "Selection Screen",
        title |-> "Selection Screen:", headers |-> <<"Parameter">>],
       [key |-> "detail_processing_table", anchor |-> "Detail Processing",
        title |-> "Detail Processing:", headers |-> <<"Nama Field">>],
       [key |-> "valid_datasets_table", anchor |-> "Detail Process Only valid datasets",
        title |-> "Detail Process Only valid datasets:", headers |-> <<"Data">>],
       [key |-> "country_info_table", anchor |-> "Form Get_Country_Info",
        title |-> "Form Get_Country_Info:", headers |-> <<"Data">>],
       [key |-> "currency_t500c_table", anchor |-> "Form Get_Currency_T500C",
        title |-> "Form Get_Currency_T500C:", headers |-> <<"Data">>],
       [key |-> "currency_t001_table", anchor |-> "Form Get_Currency_T001",
        title |-> "Form Get_Currency_T001:", headers |-> <<"Data">>] >>

\* The step run with the error list (lines 1262-1273).
ErrorStep ==
    [key |-> "error_handling_table", anchor |-> "{{potensi_error}}",
     title |-> "Potensi Error:", headers |-> <<"No", "Potensi Error">>]

\* The fallback of the testing step (lines 1292-1300), without a title.
TestingFallback ==
    [key |-> "testing_requirements_table", anchor |-> "{{kondisi_pengujian_tabel}}",
     title |-> "", headers |-> <<"No", "KONDISI PENGUJIAN">>]

\* The steps of a complete run.
AllSteps ==
    <<"title", "replace">> \o [i \in DOMAIN TableSteps |-> TableSteps[i].key]
        \o <<ErrorStep.key, TestingFallback.key, "cleanup", "save">>

\* The replacements dict (lines 1105-1142), in its order of insertion, as far as
\* its keys occur in the templates.
Replacements(info) ==
    << <<"(Nama File)", <<>>>>,
       <<"{{nama_program_sap}}", <<info.sap_program_name>>>>,
       <<"{{persyaratan_pengujian}}", <<TestingContent>>>> >>

RECURSIVE ApplyReplacements(_, _, _)
\* Lines 1149-1151: each entry whose key the text contains is replaced, in turn.
ApplyReplacements(text, pairs, k) ==
    IF k > Len(pairs) THEN text
    ELSE ApplyReplacements(ReplaceText(text, pairs[k][1], pairs[k][2]), pairs, k + 1)

\* TitlePageWordGenerator.replace_text_preserve_formatting for the entries of the
\* dict: the paragraph keeps the formatting of its first run.
ReplaceTextPreserveFormatting(paragraph, pairs) ==
    [paragraph EXCEPT !.text = ApplyReplacements(@, pairs, 1)]

\* Lines 1148-1151 and 1169-1176: the body paragraphs, then the cell paragraphs.
ReplaceStandardText(body, info) ==
    [i \in 1..Len(body) |->
        IF body[i].kind = "p" THEN ReplaceTextPreserveFormatting(body[i], Replacements(info))
        ELSE [body[i] EXCEPT !.cells =
                 [c \in 1..Len(@) |->
                     ApplyReplacements(body[i].cells[c], Replacements(info), 1)]]]

\* paragraph.text.strip().endswith("(Nama File)") (line 1062)
IsTitlePlaceholder(text) ==
    Strip(text) # <<>> /\ Strip(text)[Len(Strip(text))] = "(Nama File)"

\* One table step: nothing without data, else find_and_insert_table_after_text.
RunTableStep(body, step, info, style_missing) ==
    IF Rows(info[step.key]) = <<>> THEN body
    ELSE FindAndInsertTableAfterText(body, step.anchor, Rows(info[step.key]),
                                     step.headers, step.title, style_missing).body

InitWord ==
    /\ html_files = <<MergeFile>>
    /\ idx = 1
    /\ pc = "title"
    /\ fsd_document = FilledDoc(MergeFile)
    /\ results = <<>>
    /\ task_no = NumTasks + 1
    /\ in_flight = {}
    /\ call_log = <<>>
    /\ response = NoResponse
    /\ failed_calls = {}
    /\ served = <<>>
    /\ session = "closed"
    /\ opens = 1
    /\ closes = 1
    /\ pending_error = ""
    /\ merges = 1
    /\ merge_raised = FALSE
    /\ template_exists = TRUE
    /\ dir_template = FALSE
    /\ written = {}
    /\ output_files = {}
    /\ word_result = "none"
    /\ raised_at = ""
    /\ batch_results = <<>>
    /\ attempts = <<>>
    /\ successful = 0
    /\ failed = 0
    /\ summary = NoSummary
    /\ fail_budget = 0
    /\ bad_budget = 0
    /\ markdown = NoMarkdown
    /\ parser = NoParser
    /\ parsed_data = <<>>
    /\ excel = NoTable
    /\ improve = "loop running"
    /\ template \in Templates
    /\ docx = template
    /\ saved_doc = <<>>
    /\ run = 1
    /\ title_info \in TitleInfos
    /\ fault \in Faults
    /\ steps = <<>>
    /\ ServiceIdle

\* What every action of the Word filler leaves alone.
run_frame ==
    <<html_files, idx, fsd_document, results, task_no, in_flight, call_log, response,
      failed_calls, served, session, opens, closes, pending_error, merges, merge_raised,
      template_exists, dir_template, written, output_files, raised_at,
      batch_results, attempts, successful, failed, summary, fail_budget, bad_budget,
      markdown, parser, parsed_data, excel, improve, title_info, fault, template,
      service_vars>>

\* What the steps of one run leave alone.
word_frame == <<run_frame, run>>

\* The handler of lines 1359-1363: the exception is logged, False returned.
RaiseInWord ==
    /\ pc' = "returned"
    /\ word_result' = "false"

\* Lines 1052-1071: the template is opened and the first paragraph that ends
\* with "(Nama File)" becomes the heading f"{ricefw} {filename}".
ReplaceTitle ==
    /\ pc = "title"
    /\ steps' = Append(steps, "title")
    /\ LET ps == Paragraphs(docx)
           hits == { n \in DOMAIN ps : IsTitlePlaceholder(docx[ps[n]].text) }
       IN  IF hits = {}
           THEN /\ docx' = docx
                /\ pc' = "replace"
                /\ UNCHANGED word_result
           ELSE IF fault = "replace"
           THEN RaiseInWord /\ docx' = docx
           ELSE LET n == CHOOSE x \in hits : \A y \in hits : x <= y
                IN  /\ docx' = [docx EXCEPT ![ps[n]].text =
                                   <<title_info.ricefw_id, " ", title_info.file_name>>]
                    /\ pc' = "replace"
                    /\ UNCHANGED word_result
    /\ UNCHANGED <<word_frame, saved_doc>>

\* Lines 1148-1188: the standard replacements in the body paragraphs, the two
\* searches in the variable paragraph the loop has left behind (unbound when
\* the body has no paragraph; without a match otherwise, "(Nama File)" being
\* gone), and the replacements in the table cells.
ReplaceStandard ==
    /\ pc = "replace"
    /\ steps' = Append(steps, "replace")
    /\ IF \/ Paragraphs(docx) = <<>>
          \/ fault = "replace" /\ ReplaceStandardText(docx, title_info) # docx
       THEN RaiseInWord /\ docx' = docx
       ELSE /\ docx' = ReplaceStandardText(docx, title_info)
            /\ pc' = "tables"
            /\ UNCHANGED word_result
    /\ UNCHANGED <<word_frame, saved_doc>>

\* The table steps not run yet.
PendingTableSteps == { i \in DOMAIN TableSteps : \A k \in DOMAIN steps : steps[k] # TableSteps[i].key }

\* Lines 1193-1259: the next of the six table steps.
InsertTableStep ==
    /\ pc = "tables"
    /\ PendingTableSteps # {}
    /\ LET i == CHOOSE x \in PendingTableSteps : \A y \in PendingTableSteps : x <= y
       IN  /\ docx' = RunTableStep(docx, TableSteps[i], title_info, fault = "style")
           /\ steps' = Append(steps, TableSteps[i].key)
           /\ pc' = IF i = Len(TableSteps) THEN "error" ELSE "tables"
    /\ UNCHANGED <<word_frame, word_result, saved_doc>>

\* Lines 1262-1282: the error table; no template paragraph holds the
\* placeholder of the notification procedure.
ErrorHandlingStep ==
    /\ pc = "error"
    /\ docx' = RunTableStep(docx, ErrorStep, title_info, fault = "style")
    /\ steps' = Append(steps, ErrorStep.key)
    /\ pc' = "testing"
    /\ UNCHANGED <<word_frame, word_result, saved_doc>>

\* Lines 1285-1300: the testing table, by find_and_replace_testing_section or
\* else by the regular method.
TestingStep ==
    /\ pc = "testing"
    /\ LET data == Rows(title_info.testing_requirements_table)
           section == FindAndReplaceTestingSection(docx, data, TestingFallback.headers,
                                                   fault = "style")
       IN  docx' = IF data = <<>> THEN docx
                   ELSE IF section.inserted THEN section.body
                   ELSE RunTableStep(section.body, TestingFallback, title_info,
                                     fault = "style")
    /\ steps' = Append(steps, TestingFallback.key)
    /\ pc' = "cleanup"
    /\ UNCHANGED <<word_frame, word_result, saved_doc>>

\* Lines 1303-1344.
FinalCleanupStep ==
    /\ pc = "cleanup"
    /\ docx' = FinalCleanup(docx)
    /\ steps' = Append(steps, "cleanup")
    /\ pc' = "save"
    /\ UNCHANGED <<word_frame, word_result, saved_doc>>

\* Lines 1347-1357: doc.save, then True when the file exists.
SaveDocument ==
    /\ pc = "save"
    /\ steps' = Append(steps, "save")
    /\ pc' = "returned"
    /\ word_result' = IF fault = "save" THEN "false" ELSE "true"
    /\ saved_doc' = IF fault = "save" THEN saved_doc ELSE docx
    /\ UNCHANGED <<word_frame, docx>>

\* A faulty variant of opening the template: the document the last run has
\* filled is taken again.
ReusedDocument(file, filled) == filled

\* DocxDocument(self.template_path) (line 1052): a new document, read from the
\* template file.
FreshCopy(file, filled) == file

\* Another, independent run with the same title_info on the same template.
RunAgain ==
    /\ pc = "returned"
    /\ run < MaxRuns
    /\ run' = run + 1
    /\ docx' = FreshCopy(template, docx)
    /\ steps' = <<>>
    /\ pc' = "title"
    /\ word_result' = "none"
    /\ UNCHANGED <<run_frame, saved_doc>>

NextWord ==
    \/ RunAgain
    \/ ReplaceTitle
    \/ ReplaceStandard
    \/ InsertTableStep
    \/ ErrorHandlingStep
    \/ TestingStep
    \/ FinalCleanupStep
    \/ SaveDocument

SpecWord == InitWord /\ [][NextWord]_vars

\* The step whose call of find_and_insert_table_after_text a transition of the
\* table steps or of the error step makes.
CalledStep ==
    CHOOSE step \in {TableSteps[i] : i \in DOMAIN TableSteps} \cup {ErrorStep} :
        step.key = steps'[Len(steps')]

\* A transition that calls find_and_insert_table_after_text with table data,
\* create_bordered_table returning its table.
CallsInsertion ==
    /\ pc \in {"tables", "error"}
    /\ steps' # steps
    /\ fault # "style"
    /\ title_info[CalledStep.key] > 0

\* The body paragraphs that contain the anchor of the call.
AnchorParagraphs == { i \in DOMAIN docx : /\ docx[i].kind = "p"
                                          /\ Contains(docx[i].text, CalledStep.anchor) }

GeneratedTables(body) ==
    { i \in DOMAIN body : body[i].kind = "tbl" /\ body[i].origin = "generated" }

\* What the claim says of a call with the anchor in a body paragraph: the first
\* such paragraph holds the bold title only, the new table follows it, and
\* every other element is as before.
InsertedAfterFirst ==
    LET i == CHOOSE x \in AnchorParagraphs : \A y \in AnchorParagraphs : x <= y
    IN  /\ Len(docx') = Len(docx) + 1
        /\ docx'[i] = [docx[i] EXCEPT !.text = <<CalledStep.title>>, !.bold = TRUE]
        /\ docx'[i + 1] = TableOf("generated",
                                  <<CalledStep.headers>> \o Rows(title_info[CalledStep.key]))
        /\ \A j \in 1..(i - 1) : docx'[j] = docx[j]
        /\ \A j \in (i + 1)..Len(docx) : docx'[j + 1] = docx[j]

CellAnchorGetsTable ==
    [][(/\ CallsInsertion
        /\ AnchorParagraphs = {}
        /\ AnyCellContains(docx, CalledStep.anchor)) =>
          Cardinality(GeneratedTables(docx')) = Cardinality(GeneratedTables(docx)) + 1]_vars

\* C17: when a replacement step or a table step raises, the remaining steps are
\* run all the same and the save is attempted; generate_with_proper_tables
\* returns False only when the save itself fails.
StepsSurviveRaising ==
    pc = "returned" =>
        /\ steps = AllSteps
        /\ word_result = "false" => fault = "save"

\* The strings the cleanup passes look for as leftovers of the template.
LeftoverPlaceholders ==
    {PlaceholdersToRemove[k] : k \in DOMAIN PlaceholdersToRemove}
        \cup {SearchPatterns[k] : k \in DOMAIN SearchPatterns}
        \cup CleanupPatterns \cup {TestingFallback.anchor}

\* The keywords the cleanup passes take for boilerplate.
BoilerplateWords ==
    BreakdownWords \cup {"prioritas tinggi", "prioritas menengah", "prioritas rendah",
                         "performance"}

\* A paragraph the claim allows the cleanup passes to clear: a flat one with a
\* leftover placeholder, or a flat one below the (larger) length threshold with
\* a boilerplate keyword.
MayBeCleared(paragraph) ==
    /\ paragraph.style = "flat"
    /\ \/ \E placeholder \in LeftoverPlaceholders : Contains(paragraph.text, placeholder)
       \/ /\ TextLen(Strip(paragraph.text)) < 200
          /\ \E word \in BoilerplateWords : ContainsLower(paragraph.text, word)

\* C20: in the testing step and the final cleanup, a paragraph that is cleared
\* is a flat paragraph with a leftover placeholder or a short one with a
\* boilerplate keyword, never a heading; and the generated tables stay as they
\* are.
CleanupClearsOnlyLeftovers ==
    [][(pc \in {"testing", "cleanup"} /\ docx' # docx) =>
          LET before == Paragraphs(docx)
              after == Paragraphs(docx')
          IN  /\ \A n \in DOMAIN before :
                    (docx[before[n]].text # <<>> /\ docx'[after[n]].text = <<>>) =>
                        MayBeCleared(docx[before[n]])
              /\ \A i \in GeneratedTables(docx) : \E j \in DOMAIN docx' : docx'[j] = docx[i]]_vars

\* The number of rows of each table of a document, in document order.
TableRows(body) ==
    LET tables == SelectSeq([i \in 1..Len(body) |-> i], LAMBDA i : body[i].kind = "tbl")
    IN  [n \in DOMAIN tables |-> Len(body[tables[n]].cells)]

\* The texts of the body paragraphs and of the table cells of a document.
ResolvedTexts(body) ==
    [i \in 1..Len(body) |-> IF body[i].kind = "p" THEN <<body[i].text>> ELSE body[i].cells]

\* A table that a step has created and moved behind its anchor.
IsInsertedTable(element) ==
    element.kind = "tbl" /\ element.origin = "generated" /\ element # UnstyledTable

TestingTableAfterToken ==
    (/\ pc \in {"cleanup", "save", "returned"}
     /\ Len(steps) >= Len(AllSteps) - 2
     /\ fault = "none"
     /\ title_info.testing_requirements_table > 0) =>
        LET before == Paragraphs(template)
            after == Paragraphs(docx)
            tokens == { n \in DOMAIN before :
                          Contains(template[before[n]].text, "{{persyaratan_pengujian}}") }
        IN  tokens # {} =>
                LET n == CHOOSE x \in tokens : \A y \in tokens : x <= y
                IN  /\ after[n] < Len(docx)
                    /\ docx[after[n] + 1] =
                           TableOf("generated",
                                   <<TestingFallback.headers>>
                                       \o Rows(title_info.testing_requirements_table))

\* C23: the block of the merge that handles task t's result writes only the
\* fields t owns (whatever the document and the results are), and no field is
\* owned by two tasks.
TaskWritesOwnFields ==
    /\ \A t1 \in TaskSet : \A t2 \in TaskSet \ {t1} : OwnedFields(t1) \cap OwnedFields(t2) = {}
    /\ \A task \in TaskSet :
          LET merged == MapBlock(task, fsd_document, results).doc
          IN  \A fld \in DOMAIN fsd_document \ OwnedFields(task) :
                  merged[fld] = fsd_document[fld]

\* The merge has run on eight well-formed results, that of basic_info missing:
\* the record lists are filled and the scalars of basic_info are as before.
TaskWritesOwnFieldsWitness ==
    /\ merges = 1 /\ ~merge_raised
    /\ results = BaseResults(TaskSet \ {"basic_info"}, JStr("LOOKUP"))
    /\ fsd_document.selection_parameters # <<>>
    /\ fsd_document.user_roles # <<>>
    /\ \A fld \in OwnedFields("basic_info") : fsd_document[fld] = MergeStart[fld]

\* C29: every entry of the mapping generate_all_outputs returns names a file
\* written during the call; the 'docx' entry is there only if the Word
\* document was generated.
OutputsWereWritten ==
    pc = "convert" => output_files \subseteq written



(***************************************************************************)
(* MarkdownTitleExtractor._extract_table_of_contents(lines).  A line is a   *)
(* heading "## 4. DESAIN" or "### 4.1 Selection Screen": its number of '#', *)
(* the numbers before the title and the title; any other line matches       *)
(* neither pattern.  An entry's 'number' is the sequence of its numbers      *)
(* (<<3, 1>> for '3.1').                                                     *)
(***************************************************************************)
MaxLines == 4

Heading(hashes, number, title) == [hashes |-> hashes, number |-> number, title |-> title]

HeadingLines ==
    { Heading(2, <<4>>, "Desain"),
      Heading(2, <<5>>, "PENANGANAN ERROR"),
      Heading(2, <<0>>, "Pendahuluan"),
      Heading(2, <<>>, "ZHR_A"),
      Heading(3, <<4, 1>>, "Description detail dari Report"),
      Heading(3, <<4, 2>>, "Selection Screen"),
      Heading(3, <<5, 1>>, "Catatan"),
      Heading(3, <<>>, "Form Get_Country_Info") }

\* re.match(r'## (\d+)\.\s*(.+)', line)
MainSectionMatch(line) == line.hashes = 2 /\ Len(line.number) = 1

\* re.match(r'### (\d+)\.(\d+)\s*(.+)', line)
SubsectionMatch(line) == line.hashes = 3 /\ Len(line.number) = 2

\* str.upper()
Upper(title) ==
    CASE title = "Desain" -> "DESAIN"
      [] title = "Pendahuluan" -> "PENDAHULUAN"
      [] title = "Catatan" -> "CATATAN"
      [] title = "Selection Screen" -> "SELECTION SCREEN"
      [] title = "Description detail dari Report" -> "DESCRIPTION DETAIL DARI REPORT"
      [] OTHER -> title

\* section_mappings.get(key, fallback): every key maps to itself.
SectionMapping(key, fallback) ==
    IF key \in {"INFORMASI DOKUMEN", "PERSYARATAN UMUM", "DESAIN", "Selection Screen",
                "Detail Processing", "Detail Process Only valid datasets",
                "Form Get_Country_Info", "Form Get_Currency_T500C", "Form Get_Currency_T001",
                "PENANGANAN ERROR", "DESAIN ALTERNATIF", "PERSYARATAN PENGUJIAN",
                "PERUBAHAN DESAIN"}
    THEN key ELSE fallback

TocItem(number, title, page) == [number |-> number, title |-> title, page |-> page]

\* Lines 434-443.
FixedTocItems == <<TocItem(<<1>>, "INFORMASI DOKUMEN", 2), TocItem(<<2>>, "DAFTAR ISI", 3)>>

\* Lines 401 and 434-450: the locals before the first loop.
TocStart(lines) ==
    [lines |-> lines, line_no |-> 1, sections_found |-> <<>>, toc_items |-> FixedTocItems]

\* Lines 453-481: one iteration of the first loop.
CollectSection(sections_found, line) ==
    IF MainSectionMatch(line)
    THEN IF line.number[1] >= 1
         THEN Append(sections_found,
                     [original_number |-> line.number[1], title |-> line.title,
                      subsections |-> <<>>])
         ELSE sections_found
    ELSE IF SubsectionMatch(line)
            /\ \E k \in 1..Len(sections_found) :
                  sections_found[k].original_number = line.number[1]
    THEN LET k == CHOOSE k \in 1..Len(sections_found) :
                    /\ sections_found[k].original_number = line.number[1]
                    /\ \A j \in 1..(k - 1) :
                          sections_found[j].original_number # line.number[1]
         IN  [sections_found EXCEPT ![k].subsections =
                 Append(sections_found[k].subsections,
                        [sub_number |-> line.number[2], title |-> line.title])]
    ELSE sections_found

\* Lines 484-515 for one section: its entry and its subsections' entries.
SectionItems(section, section_counter, page_number) ==
    <<TocItem(<<section_counter>>, SectionMapping(Upper(section.title), section.title),
              page_number)>>
    \o [i \in 1..Len(section.subsections) |->
          TocItem(<<section_counter, i>>,
                  SectionMapping(section.subsections[i].title, section.subsections[i].title),
                  page_number + i)]

\* Lines 484-515: the second loop.
RECURSIVE GenerateToc(_, _, _)
GenerateToc(sections, section_counter, page_number) ==
    IF sections = <<>> THEN <<>>
    ELSE SectionItems(Head(sections), section_counter, page_number)
         \o GenerateToc(Tail(sections), section_counter + 1,
                        page_number + 1 + Len(Head(sections).subsections))

\* Headings of at most MaxLines lines.
\* The pipeline at rest: no file in work, nothing written.
PipelineIdle ==
    /\ html_files = <<>>
    /\ idx = 1
    /\ results = <<>>
    /\ task_no = NumTasks + 1
    /\ in_flight = {}
    /\ call_log = <<>>
    /\ response = NoResponse
    /\ failed_calls = {}
    /\ served = <<>>
    /\ session = "closed"
    /\ opens = 1
    /\ closes = 1
    /\ pending_error = ""
    /\ merges = 1
    /\ merge_raised = FALSE
    /\ template_exists = FALSE
    /\ dir_template = FALSE
    /\ written = {}
    /\ output_files = {}
    /\ word_result = "none"
    /\ raised_at = ""
    /\ batch_results = <<>>
    /\ attempts = <<>>
    /\ successful = 0
    /\ failed = 0
    /\ summary = NoSummary
    /\ fail_budget = 0
    /\ bad_budget = 0
    /\ markdown = NoMarkdown
    /\ parser = NoParser
    /\ parsed_data = <<>>
    /\ excel = NoTable
    /\ improve = "loop running"
    /\ WordIdle

InitToc ==
    /\ PipelineIdle
    /\ pc = "toc"
    /\ fsd_document = MapperInit
    /\ processing_jobs = <<>>
    /\ tasks = <<>>
    /\ output_dir = DefaultOutputDir
    /\ toc \in {TocStart(lines) : lines \in SeqsUpTo(HeadingLines, MaxLines)}

toc_frame ==
    <<pipeline_vars, markdown, parser, parsed_data, excel, improve, word_vars,
      processing_jobs, tasks, output_dir>>

\* One iteration of `for line in lines` (lines 453-481).
CollectSections ==
    /\ pc = "toc"
    /\ toc.line_no <= Len(toc.lines)
    /\ toc' = [toc EXCEPT !.sections_found = CollectSection(toc.sections_found,
                                                            toc.lines[toc.line_no]),
                          !.line_no = toc.line_no + 1]
    /\ UNCHANGED <<pc, toc_frame>>

\* The second loop and `return toc_items` (lines 484-517).
ReturnToc ==
    /\ pc = "toc"
    /\ toc.line_no > Len(toc.lines)
    /\ toc' = [toc EXCEPT !.toc_items = toc.toc_items \o GenerateToc(toc.sections_found, 3, 4)]
    /\ pc' = "toc returned"
    /\ UNCHANGED toc_frame

NextToc == CollectSections \/ ReturnToc

SpecToc == InitToc /\ [][NextToc]_vars

(***************************************************************************)
(* The service (main.py, lines 1944-2457).  Every job is a background task  *)
(* on the one event loop and uses the one generator `fsd_generator`: its    *)
(* mapper's FSD Document (fsd_document) and its output generator's          *)
(* output_dir are shared.  A task runs alone from one suspend point (an     *)
(* awaited remote call) to the next.  The 'message' field is left out.      *)
(***************************************************************************)
MaxJobs == 2

JobIds == 1..MaxJobs

\* The uploaded files a job may be asked to process.
JobFiles == {"up/a.html", "up/b.html"}

\* Where process_file raises for a job: nowhere, at os.path.exists (the file
\* is gone, line 1792), in generate_all_outputs (line 1811).
JobFaults == {"none", "not found", "outputs"}

\* request.output_dir or OUTPUT_DIR (line 2174)
RequestedDirs(job_id) == {DefaultOutputDir, "out/job" \o ToString(job_id)}

\* ProcessingStatus (lines 1906-1912)
ProcessingStatus(status, progress, job_results, error) ==
    [status |-> status, progress |-> progress, results |-> job_results, error |-> error]

\* Lines 2231-2235.
JobCompleted(job, serializable_results) ==
    [job EXCEPT !.status = "completed", !.progress = 100, !.results = serializable_results]

\* A handler that leaves the progress where it was.
JobFailedKeepingProgress(job, error) == [job EXCEPT !.status = "failed", !.error = error]

\* Lines 2240-2244.
JobFailed(job, error) == [job EXCEPT !.status = "failed", !.progress = 0, !.error = error]

\* `except Exception as e` (lines 2239-2245) for job_id: the entry is marked
\* failed; when the registry has no such entry the handler itself raises
\* KeyError, which nothing catches.
HandleException(job_id, error) ==
    IF job_id \in DOMAIN processing_jobs
    THEN /\ processing_jobs' = [processing_jobs EXCEPT ![job_id] = JobFailed(@, error)]
         /\ tasks' = [tasks EXCEPT ![job_id].pc = "returned"]
    ELSE /\ processing_jobs' = processing_jobs
         /\ tasks' = [tasks EXCEPT ![job_id].pc = "unhandled KeyError"]

\* The task results of a listing the service answers well for.
GoodResults(f) == [task \in TaskSet |-> GoodDoc(task, f, JStr("LOOKUP"))]

InitJobs ==
    /\ PipelineIdle
    /\ pc = "serving"
    /\ fsd_document = MapperInit
    /\ ServiceIdle

\* What the service leaves alone.
job_frame ==
    <<html_files, idx, pc, results, task_no, in_flight, call_log, response,
      failed_calls, served, session, opens, closes, pending_error, merges, merge_raised,
      template_exists, dir_template, written, output_files, word_result, raised_at,
      batch_results, attempts, successful, failed, summary, fail_budget, bad_budget,
      markdown, parser, parsed_data, excel, improve, word_vars, toc>>

\* POST /api/process (lines 2157-2175): a new job id, a pending entry, a task.
ProcessFiles ==
    \E f \in JobFiles, fl \in JobFaults :
        LET job_id == Cardinality(DOMAIN tasks) + 1
        IN  /\ job_id \in JobIds
            /\ \E dir \in RequestedDirs(job_id) :
                  tasks' = (job_id :> [pc |-> "scheduled", file |-> f, output_dir |-> dir,
                                       fault |-> fl]) @@ tasks
            /\ processing_jobs' =
                  (job_id :> ProcessingStatus("pending", 0, NoDoc, "")) @@ processing_jobs
            /\ UNCHANGED <<job_frame, fsd_document, output_dir>>

\* process_files_background, lines 2196-2207: the first writes to the entry.
StartBackground(job_id) ==
    /\ tasks[job_id].pc = "scheduled"
    /\ IF job_id \in DOMAIN processing_jobs
       THEN /\ processing_jobs' = [processing_jobs EXCEPT ![job_id].status = "processing",
                                                           ![job_id].progress = 30]
            /\ tasks' = [tasks EXCEPT ![job_id].pc = "processing"]
       ELSE HandleException(job_id, "KeyError")
    /\ UNCHANGED <<job_frame, fsd_document, output_dir>>

\* process_file up to the first remote call (lines 1788-1800 and 1165-1176):
\* the file is looked for, the mapper notes the document location (line 1174).
EnterProcessFile(job_id) ==
    /\ tasks[job_id].pc = "processing"
    /\ IF tasks[job_id].fault = "not found"
       THEN /\ HandleException(job_id, "FileNotFoundError")
            /\ UNCHANGED fsd_document
       ELSE /\ fsd_document' =
                  [fsd_document EXCEPT !.document_location = JStr(Basename(tasks[job_id].file))]
            /\ tasks' = [tasks EXCEPT ![job_id].pc = "analyzing"]
            /\ UNCHANGED processing_jobs
    /\ UNCHANGED <<job_frame, output_dir>>

\* From the last remote call to the end of the task: the results are mapped
\* into the mapper's document (line 1211), process_file generates the outputs
\* in the requested directory (lines 1803-1832) and returns, the entry is
\* completed (lines 2228-2236) or the handler runs.
FinishBackground(job_id) ==
    /\ tasks[job_id].pc = "analyzing"
    /\ LET doc == MapFixedResultsToFsd(fsd_document, GoodResults(tasks[job_id].file)).doc
           original_output_dir == output_dir
           result == [fsd_document |-> DataclassToDict(doc),
                      output_location |-> tasks[job_id].output_dir]
       IN  /\ fsd_document' = doc
           /\ IF tasks[job_id].fault = "outputs"
              THEN /\ output_dir' = tasks[job_id].output_dir
                   /\ HandleException(job_id, "OSError")
              ELSE /\ output_dir' = original_output_dir
                   /\ IF job_id \in DOMAIN processing_jobs
                      THEN /\ processing_jobs' =
                                 [processing_jobs EXCEPT ![job_id] = JobCompleted(@, result)]
                           /\ tasks' = [tasks EXCEPT ![job_id].pc = "returned"]
                      ELSE HandleException(job_id, "KeyError")
    /\ UNCHANGED job_frame

\* DELETE /api/clear-files (lines 2426-2457): processing_jobs = {}.
ClearAllFiles ==
    /\ processing_jobs # <<>>
    /\ processing_jobs' = <<>>
    /\ UNCHANGED <<job_frame, fsd_document, tasks, output_dir>>

NextJobs ==
    \/ ProcessFiles
    \/ ClearAllFiles
    \/ \E job_id \in DOMAIN tasks :
          \/ StartBackground(job_id)
          \/ EnterProcessFile(job_id)
          \/ FinishBackground(job_id)

SpecJobs == InitJobs /\ [][NextJobs]_vars

\* The records of a record list as _generate_markdown renders them, cell by cell.
RenderedRecords(doc, table) ==
    LET data(rows) ==
            [i \in 1..Len(rows) |->
                [data |-> Fmt(rows[i].data), condition |-> Fmt(rows[i].condition)]]
    IN  CASE table = "selection_screen_table" ->
                [i \in 1..Len(doc.selection_parameters) |->
                    LET param == doc.selection_parameters[i]
                    IN  [parameter |-> Fmt(param.name), type |-> Fmt(param.type),
                         description |-> Fmt(param.description),
                         mandatory |-> YesNo(param.is_mandatory),
                         select_option |-> YesNo(param.is_select_option),
                         no_intervals |-> YesNo(param.has_no_intervals)]]
          [] table = "detail_processing_table" ->
                [i \in 1..Len(doc.field_mappings) |->
                    LET field == doc.field_mappings[i]
                    IN  [field_name |-> Fmt(field.display_name),
                         technical_field |-> Fmt(field.technical_field),
                         source_table |-> Fmt(field.source_table),
                         processing_logic |-> Fmt(field.processing_logic),
                         processing_type |-> <<field.processing_type.value>>]]
          [] table = "valid_datasets_table" -> data(doc.valid_dataset_rules)
          [] table = "country_info_table" -> data(doc.country_info)
          [] table = "currency_t500c_table" -> data(doc.currency_t500c)
          [] table = "currency_t001_table" -> data(doc.currency_t001)
          [] table = "error_handling_table" ->
                [i \in 1..Len(doc.error_scenarios) |->
                    LET error == doc.error_scenarios[i]
                    IN  [no |-> <<ToString(i)>>,
                         error_description |-> Fmt(error.error_description),
                         resolution |-> Fmt(error.resolution),
                         error_code |-> Fmt(error.error_code),
                         severity |-> Fmt(error.severity)]]
          [] table = "testing_requirements_table" ->
                [i \in 1..Len(doc.test_scenarios) |->
                    LET test == doc.test_scenarios[i]
                    IN  [no |-> <<ToString(i)>>,
                         test_condition |-> Fmt(test.condition),
                         expected_result |-> Fmt(test.expected_result),
                         test_data |-> Fmt(test.test_data),
                         priority |-> Fmt(test.priority)]]

\* C24: extract_title_info recovers from the rendered Markdown exactly the
\* records of every rendered record list: as many as were rendered, in the
\* same order, with the same cell values, whatever the text fields contain.
TablesRoundTrip ==
    pc = "extracted" =>
        \A table \in TableKeys : title_info[table] = RenderedRecords(fsd_document, table)

\* The same, for documents no text field of which holds a header word.
TablesRoundTripPlain ==
    (pc = "extracted"
        /\ \A i \in 1..Len(fsd_document.selection_parameters) :
              fsd_document.selection_parameters[i].description # JStr("Parameter tanggal")) =>
        \A table \in TableKeys : title_info[table] = RenderedRecords(fsd_document, table)

\* The lines that get an entry: the numbered level-2 headings, and the numbered
\* level-3 headings whose main number is that of an earlier one of them.
HasEntry(lines, i) ==
    \/ MainSectionMatch(lines[i])
    \/ /\ SubsectionMatch(lines[i])
       /\ \E j \in 1..(i - 1) :
             MainSectionMatch(lines[j]) /\ lines[j].number[1] = lines[i].number[1]

\* The main heading a level-3 heading belongs to: the first with its main number.
MainOf(lines, i) ==
    CHOOSE j \in 1..(i - 1) :
        /\ MainSectionMatch(lines[j]) /\ lines[j].number[1] = lines[i].number[1]
        /\ \A h \in 1..(j - 1) :
              ~(MainSectionMatch(lines[h]) /\ lines[h].number[1] = lines[i].number[1])

\* The number of main entry of the heading of line j: 3 for the first.
MainNumber(lines, j) == 2 + Cardinality({h \in 1..j : MainSectionMatch(lines[h])})

\* The entries after the two fixed ones, in document order.
DocumentOrderItems(lines) ==
    LET entries == SelectSeq([i \in 1..Len(lines) |-> i], LAMBDA i : HasEntry(lines, i))
    IN  [p \in 1..Len(entries) |->
            LET i == entries[p]
            IN  IF MainSectionMatch(lines[i])
                THEN TocItem(<<MainNumber(lines, i)>>,
                             SectionMapping(Upper(lines[i].title), lines[i].title), 3 + p)
                ELSE TocItem(<<MainNumber(lines, MainOf(lines, i)),
                               Cardinality({h \in 1..i : /\ SubsectionMatch(lines[h])
                                                         /\ HasEntry(lines, h)
                                                         /\ MainOf(lines, h) = MainOf(lines, i)})>>,
                             SectionMapping(lines[i].title, lines[i].title), 3 + p)]

\* C25: _extract_table_of_contents returns the two fixed entries, then in
\* document order one entry per numbered level-2 heading and per numbered
\* level-3 heading whose main number is that of an earlier level-2 heading;
\* pages run on from 2, main entries are numbered from 3 and the subsections
\* of main entry k are k.1, k.2, ...
TocInDocumentOrder ==
    pc = "toc returned" => toc.toc_items = FixedTocItems \o DocumentOrderItems(toc.lines)

\* C26: a job's status only goes pending -> processing -> completed or
\* failed; a new entry is pending; a completed entry has progress 100 and its
\* results, a failed one progress 0 and its error.
JobStatusProtocol ==
    [][\A job_id \in DOMAIN processing_jobs' :
          LET after == processing_jobs'[job_id]
          IN  /\ IF job_id \in DOMAIN processing_jobs
                 THEN \/ after.status = processing_jobs[job_id].status
                      \/ <<processing_jobs[job_id].status, after.status>> \in
                            {<<"pending", "processing">>, <<"processing", "completed">>,
                             <<"processing", "failed">>}
                 ELSE after.status = "pending"
              /\ after.status = "completed" => after.progress = 100 /\ after.results # NoDoc
              /\ after.status = "failed" => after.progress = 0 /\ after.error # ""]_vars

\* One job completed and another failed.
JobStatusProtocolWitness ==
    \E done, broken \in DOMAIN processing_jobs :
        /\ processing_jobs[done].status = "completed"
        /\ processing_jobs[broken].status = "failed"

\* C27: whenever clear_all_files runs, a background task ends without an
\* unhandled exception: it does not touch an entry the registry no longer has.
TasksSurviveClearing ==
    \A job_id \in DOMAIN tasks : tasks[job_id].pc # "unhandled KeyError"

\* C28: process_file called with a custom output directory leaves
\* output_generator.output_dir as it found it, however it ends: by returning
\* or by raising from the output generation.
OutputDirRestored ==
    [][\A job_id \in DOMAIN tasks :
          (tasks[job_id].pc \in {"processing", "analyzing"}
             /\ tasks'[job_id].pc \in {"returned", "unhandled KeyError"}) =>
              output_dir' = output_dir]_vars

\* C22: of two jobs on the shared generator, each gets the FSD Document built
\* from its own file alone and its outputs in its own directory.
JobsIndependent ==
    \A job_id \in DOMAIN processing_jobs :
        processing_jobs[job_id].status = "completed" =>
            /\ processing_jobs[job_id].results.fsd_document =
                  DataclassToDict(BuiltAlone(tasks[job_id].file,
                                             GoodResults(tasks[job_id].file)))
            /\ processing_jobs[job_id].results.output_location = tasks[job_id].output_dir
=============================================================================
